---- MODULE Spec2Model ----
(***************************************************************************)
(* Reconciliation core of the Radarr plugin for Buildarr.                  *)
(*                                                                         *)
(* The module models a remote Radarr instance (raw API resources), the     *)
(* local configuration tree, the decoded snapshot of the remote instance   *)
(* (from_remote), and the settings orchestrator that reconciles every      *)
(* section in a fixed order (update_remote) and then removes unmanaged     *)
(* resources (delete_remote).  Every remote API call is appended to a      *)
(* call log, so that ordering, frame and counting properties are state     *)
(* predicates over the log.                                                *)
(***************************************************************************)
EXTENDS Integers, Sequences, FiniteSets, TLC

VARIABLES
    local,      \* the local configuration tree, section name -> settings
    remote,     \* the remote instance, section name -> raw API resources
    snap,       \* the decoded remote snapshot handed to update/delete_remote
    fresh,      \* TRUE when snap was read after the last mutation
    pc,         \* "idle", "update", "delete" or "failed" (an exception escaped)
    op,         \* the operation started last: "none", "update" or "delete"
    todo,       \* the sections the running operation still has to visit
    calls,      \* remote API calls of the operation started last, in order
    results,    \* [sec, value]: what each visited section returned, in order
    rets,       \* [op, value]: what each finished operation returned, in order
    before      \* the remote instance as it was when the operation started

vars == <<local, remote, snap, fresh, pc, op, todo, calls, results, rets, before>>

(***************************************************************************)
(* Bounds of the model.                                                    *)
(***************************************************************************)
MaxPriority == 2        \* download client priorities are drawn from 1..MaxPriority
MaxUpdateRuns == 2      \* update_remote runs per behaviour (idempotence needs two)

Names == {"X", "Y"}             \* names of definitions in a collection
NameOrder == <<"X", "Y">>       \* iteration order of a dict holding them
TagLabels == {"t"}
Hosts == {"h1", "h2"}
RootPaths == {"/a", "/b"}
PathOrder == <<"/a", "/b">>

(***************************************************************************)
(* Python values.  Optional[T] is a sequence of length at most one.        *)
(***************************************************************************)
NoneVal == <<>>
Some(v) == <<v>>

EmptyMap == [x \in {} |-> 0]

\* {**a, **b}
Merge(a, b) ==
    [k \in (DOMAIN a) \cup (DOMAIN b) |-> IF k \in DOMAIN b THEN b[k] ELSE a[k]]

\* {k: v for k, v in f.items() if k not in ks}
Without(f, ks) == [k \in (DOMAIN f) \ ks |-> f[k]]

\* any([...]): the list is built in full, then reduced.
AnyOf(rs) == \E i \in DOMAIN rs : rs[i].value

SeqOfNames(S) == SelectSeq(NameOrder, LAMBDA n : n \in S)
SeqOfPaths(S) == SelectSeq(PathOrder, LAMBDA p : p \in S)

MaxOf(S) == IF S = {} THEN 0 ELSE CHOOSE m \in S : \A x \in S : x <= m

(***************************************************************************)
(* The remote service.  A collection is a map from the resource name to    *)
(* the raw resource; every resource carries the numeric id the service     *)
(* gave it.  A handler threads st = [remote, calls, changed, failed]       *)
(* through the calls it makes.                                             *)
(***************************************************************************)
Start(r) == [remote |-> r, calls |-> <<>>, changed |-> FALSE, failed |-> FALSE]

Logged(st, sec, kind, name, payload) ==
    [st EXCEPT !.calls =
        Append(@, [sec |-> sec, op |-> kind, name |-> name, payload |-> payload])]

\* A read of remote state: only logged.
ApiRead(st, sec, kind) == Logged(st, sec, kind, "", EmptyMap)

Raise(st) == [st EXCEPT !.failed = TRUE]

MarkChanged(st) == [st EXCEPT !.changed = TRUE]

NewId(coll) == 1 + MaxOf({coll[n].id : n \in DOMAIN coll})

\* The writes the service refuses (the API client raises): a set of
\* <<collection, resource name>> held with the remote state where a run has
\* to deal with a failing service.
Rejects(st, sec, name) ==
    "rejects" \in DOMAIN st.remote /\ <<sec, name>> \in st.remote.rejects

\* POST: the service stores the resource under a new id.
ApiCreate(st, sec, res) ==
    LET coll == st.remote[sec]
        stored == Merge(res, [id |-> NewId(coll)])
    IN  IF Rejects(st, sec, res.name)
        THEN Raise(Logged(st, sec, "create", res.name, res))
        ELSE [Logged(st, sec, "create", res.name, res)
                EXCEPT !.remote[sec] = Merge(coll, [n \in {res.name} |-> stored])]

\* PUT: the service replaces the resource that has this id.
ApiUpdate(st, sec, id, res) ==
    LET coll == st.remote[sec]
        hit == {n \in DOMAIN coll : coll[n].id = id}
    IN  IF Rejects(st, sec, res.name)
        THEN Raise(Logged(st, sec, "update", res.name, res))
        ELSE [Logged(st, sec, "update", res.name, res)
                EXCEPT !.remote[sec] =
                    [n \in ((DOMAIN coll) \ hit) \cup {res.name} |->
                        IF n = res.name THEN res ELSE coll[n]]]

\* DELETE: the service drops the resource that has this id.
ApiDelete(st, sec, id) ==
    LET coll == st.remote[sec]
        hit == {n \in DOMAIN coll : coll[n].id = id}
        name == IF hit = {} THEN "" ELSE CHOOSE n \in hit : TRUE
    IN  [Logged(st, sec, "delete", name, EmptyMap)
            EXCEPT !.remote[sec] = Without(coll, hit)]

(***************************************************************************)
(* Remote maps.  An entry names the local attribute (l), the remote        *)
(* attribute (r), whether the remote value lives in the "fields" array     *)
(* (is_field) and the encoder/decoder pair it uses (codec).  The context   *)
(* ctx carries what the codecs close over: the tag name-to-id map and the  *)
(* name of the definition.                                                 *)
(***************************************************************************)
Entry(l, r, isField, codec) == [l |-> l, r |-> r, is_field |-> isField, codec |-> codec]

Ctx(tagIds, name) == [tag_ids |-> tagIds, name |-> name]

\* "encoder": lambda v: sorted(tag_ids[tag] for tag in v) raises KeyError for
\* a label the map lacks.  A sorted list of distinct ids is held as their set.
EncodeOk(e, v, ctx) ==
    e.codec = "tags" => v \subseteq DOMAIN ctx.tag_ids

Encode(e, v, ctx) ==
    CASE e.codec = "tags"  -> {ctx.tag_ids[t] : t \in v}
      [] e.codec = "title" -> IF v = NoneVal \/ v = Some("") THEN ctx.name ELSE v[1]
      [] OTHER             -> v

\* "decoder": lambda v: set(tag for tag, tag_id in tag_ids.items() if tag_id in v)
Decode(e, v, ctx) ==
    CASE e.codec = "tags" -> {t \in DOMAIN ctx.tag_ids : ctx.tag_ids[t] \in v}
      [] OTHER            -> v

FieldValue(fields, name) ==
    fields[CHOOSE i \in DOMAIN fields : fields[i].name = name].value

RemoteValue(e, attrs) ==
    IF e.is_field THEN FieldValue(attrs.fields, e.r) ELSE attrs[e.r]

Locals(map) == {map[i].l : i \in DOMAIN map}

EntryOf(map, l) == map[CHOOSE i \in DOMAIN map : map[i].l = l]

\* get_local_attrs: the local attribute bag decoded from a raw resource.
GetLocalAttrs(map, attrs, ctx) ==
    [l \in Locals(map) |-> Decode(EntryOf(map, l), RemoteValue(EntryOf(map, l), attrs), ctx)]

\* The payload for the entries incl of the map, valued by val: root attributes
\* by remote name, field attributes as a "fields" list in map order.
Payload(map, incl, val) ==
    LET roots == {i \in incl : ~map[i].is_field}
        fidx == SelectSeq([i \in DOMAIN map |-> i], LAMBDA i : i \in incl /\ map[i].is_field)
        root == [k \in {map[i].r : i \in roots} |->
                    val[CHOOSE i \in roots : map[i].r = k]]
        flds == [j \in DOMAIN fidx |-> [name |-> map[fidx[j]].r, value |-> val[fidx[j]]]]
    IN  IF fidx = <<>> THEN root ELSE Merge(root, [fields |-> flds])

\* get_create_remote_attrs: every entry of the map, encoded from the local entity.
GetCreateRemoteAttrs(entity, map, ctx) ==
    LET all == DOMAIN map
        ok  == \A i \in all : EncodeOk(map[i], entity[map[i].l], ctx)
    IN  [ok    |-> ok,
         attrs |-> IF ok
                   THEN Payload(map, all,
                            [i \in all |-> Encode(map[i], entity[map[i].l], ctx)])
                   ELSE EmptyMap]

\* get_update_remote_attrs: an entry changed when the local value differs from
\* the value of the decoded remote entity; with set_unchanged the payload also
\* carries the unchanged entries, encoded from the remote entity.
GetUpdateRemoteAttrs(entity, remoteEntity, map, ctx, setUnchanged) ==
    LET all  == DOMAIN map
        diff == {i \in all : entity[map[i].l] # remoteEntity[map[i].l]}
        incl == IF setUnchanged THEN all ELSE diff
        src(i) == IF i \in diff THEN entity[map[i].l] ELSE remoteEntity[map[i].l]
        ok   == \A i \in incl : EncodeOk(map[i], src(i), ctx)
    IN  [ok      |-> ok,
         changed |-> diff # {},
         attrs   |-> IF ok
                     THEN Payload(map, incl, [i \in incl |-> Encode(map[i], src(i), ctx)])
                     ELSE EmptyMap]

(***************************************************************************)
(* Download clients.  The same reconciliation loop, on the same entity     *)
(* shape, stands for every name-keyed definitions collection (sec names    *)
(* the collection the calls go to).                                        *)
(***************************************************************************)
Collections ==
    {"download_clients", "indexers", "profiles", "lists", "connect", "custom_formats"}

\* DownloadClient._get_base_remote_map + the variant's _remote_map.
DownloadClientRemoteMap ==
    << Entry("enable", "enable", FALSE, "plain"),
       Entry("priority", "priority", FALSE, "plain"),
       Entry("tags", "tags", FALSE, "tags"),
       Entry("host", "host", TRUE, "plain") >>

\* The variant's entry of list_download_client_schema().
DownloadClientSchema ==
    [id |-> 0, name |-> "", implementation |-> "Transmission",
     enable |-> FALSE, priority |-> 1, tags |-> {},
     removeCompletedDownloads |-> TRUE,
     fields |-> << [name |-> "host", value |-> "localhost"],
                   [name |-> "urlBase", value |-> "/transmission/"] >>]

\* DownloadClient._get_api_schema
GetApiSchema == Without(DownloadClientSchema, {"id", "name"})

\* A variant that sends only the fields of the remote map.
MergeFieldsMappedOnly(base, set) == set

\* [({**f, "value": values[f["name"]]} if f["name"] in values else f) for f in base]
MergeFields(base, set) ==
    LET named == {set[i].name : i \in DOMAIN set}
    IN  [j \in DOMAIN base |->
            IF base[j].name \in named
            THEN Merge(base[j], [value |-> FieldValue(set, base[j].name)])
            ELSE base[j]]

\* tag_ids is only fetched when some local or remote definition has tags.
NeedsTags(defs, remoteDefs) ==
    \/ \E n \in DOMAIN defs : defs[n].tags # {}
    \/ \E n \in DOMAIN remoteDefs : remoteDefs[n].tags # {}

\* DownloadClient._from_remote
DownloadClientFromRemote(tagIds, res) ==
    GetLocalAttrs(DownloadClientRemoteMap, res, Ctx(tagIds, res.name))

\* RadarrDownloadClientsSettings.from_remote
CollectionFromRemote(r, sec) ==
    LET coll == r[sec]
        tagIds == IF \E n \in DOMAIN coll : coll[n].tags # {} THEN r.tags ELSE EmptyMap
    IN  [n \in DOMAIN coll |-> DownloadClientFromRemote(tagIds, coll[n])]

\* A variant that leaves the labels the tag map lacks out of the payload.
CreateRemoteDroppingTags(st, sec, entity, tagIds, name) ==
    LET known == [entity EXCEPT !.tags = @ \cap DOMAIN tagIds]
        got == GetCreateRemoteAttrs(known, DownloadClientRemoteMap, Ctx(tagIds, name))
        set == Merge(got.attrs,
                     [fields |-> MergeFields(GetApiSchema.fields, got.attrs.fields)])
    IN  ApiCreate(st, sec, Merge(Merge([name |-> name], GetApiSchema), set))

\* DownloadClient._create_remote
CreateRemote(st, sec, entity, tagIds, name) ==
    LET got == GetCreateRemoteAttrs(entity, DownloadClientRemoteMap, Ctx(tagIds, name))
        set == Merge(got.attrs,
                     [fields |-> MergeFields(GetApiSchema.fields, got.attrs.fields)])
    IN  IF ~got.ok THEN Raise(st)
        ELSE ApiCreate(st, sec, Merge(Merge([name |-> name], GetApiSchema), set))

\* A variant that overlays the attributes on the variant's schema instead of
\* the API object read from the remote instance.
UpdatePayloadFromSchema(api, attrs) ==
    Merge(Merge([id |-> api.id, name |-> api.name], GetApiSchema),
          IF "fields" \in DOMAIN attrs
          THEN Merge(attrs, [fields |-> MergeFields(GetApiSchema.fields, attrs.fields)])
          ELSE attrs)

\* The payload DownloadClient._update_remote sends: the API object overlaid
\* with the attributes of the remote map.
UpdatePayload(api, attrs) ==
    Merge(api,
          IF "fields" \in DOMAIN attrs
          THEN Merge(attrs, [fields |-> MergeFields(api.fields, attrs.fields)])
          ELSE attrs)

\* A variant that sends the update whether or not the delta reports a change.
UpdateRemoteAlways(st, sec, entity, remoteEntity, tagIds, api) ==
    LET got == GetUpdateRemoteAttrs(entity, remoteEntity, DownloadClientRemoteMap,
                                    Ctx(tagIds, api.name), TRUE)
    IN  IF ~got.ok THEN Raise(st)
        ELSE MarkChanged(ApiUpdate(st, sec, api.id, UpdatePayload(api, got.attrs)))

\* DownloadClient._update_remote
UpdateRemote(st, sec, entity, remoteEntity, tagIds, api) ==
    LET got == GetUpdateRemoteAttrs(entity, remoteEntity, DownloadClientRemoteMap,
                                    Ctx(tagIds, api.name), TRUE)
    IN  IF ~got.ok THEN Raise(st)
        ELSE IF got.changed
             THEN MarkChanged(ApiUpdate(st, sec, api.id, UpdatePayload(api, got.attrs)))
             ELSE st

\* A variant that creates without recording the change.
UpdateOneSilentCreate(st, sec, defs, remoteDefs, tagIds, apis, name) ==
    IF name \notin DOMAIN remoteDefs
    THEN CreateRemote(st, sec, defs[name], tagIds, name)
    ELSE IF name \notin DOMAIN apis THEN Raise(st)
    ELSE UpdateRemote(st, sec, defs[name], remoteDefs[name], tagIds, apis[name])

\* A variant that lists the collection again after it created a definition.
UpdateOneRelisting(st, sec, defs, remoteDefs, tagIds, apis, name) ==
    IF name \notin DOMAIN remoteDefs
    THEN LET made == CreateRemote(st, sec, defs[name], tagIds, name)
         IN  IF made.failed THEN made ELSE ApiRead(MarkChanged(made), sec, "list")
    ELSE IF name \notin DOMAIN apis THEN Raise(st)
    ELSE UpdateRemote(st, sec, defs[name], remoteDefs[name], tagIds, apis[name])

\* One iteration of the loop over self.definitions.items().
UpdateOne(st, sec, defs, remoteDefs, tagIds, apis, name) ==
    IF name \notin DOMAIN remoteDefs
    THEN LET made == CreateRemote(st, sec, defs[name], tagIds, name)
         IN  IF made.failed THEN made ELSE MarkChanged(made)
    ELSE IF name \notin DOMAIN apis THEN Raise(st)
    ELSE UpdateRemote(st, sec, defs[name], remoteDefs[name], tagIds, apis[name])

\* A variant that goes on to the next definition after one has failed.
RECURSIVE UpdateLoopResuming(_, _, _, _, _, _, _)
UpdateLoopResuming(st, sec, defs, remoteDefs, tagIds, apis, names) ==
    IF names = <<>> THEN st
    ELSE UpdateLoopResuming(UpdateOne(st, sec, defs, remoteDefs, tagIds, apis, Head(names)),
                            sec, defs, remoteDefs, tagIds, apis, Tail(names))

RECURSIVE UpdateLoop(_, _, _, _, _, _, _)
UpdateLoop(st, sec, defs, remoteDefs, tagIds, apis, names) ==
    IF names = <<>> \/ st.failed THEN st
    ELSE UpdateLoop(UpdateOne(st, sec, defs, remoteDefs, tagIds, apis, Head(names)),
                    sec, defs, remoteDefs, tagIds, apis, Tail(names))

\* RadarrDownloadClientsSettings.update_remote
CollectionUpdateRemote(st, sec, settings, remoteSettings) ==
    LET defs == settings.definitions
        rdefs == remoteSettings.definitions
        s1 == ApiRead(ApiRead(st, sec, "schema"), sec, "list")
        need == NeedsTags(defs, rdefs)
        s2 == IF need THEN ApiRead(s1, sec, "list_tag") ELSE s1
        tagIds == IF need THEN st.remote.tags ELSE EmptyMap
    IN  UpdateLoop(s2, sec, defs, rdefs, tagIds, st.remote[sec], SeqOfNames(DOMAIN defs))

\* A variant that deletes unmanaged resources without consulting delete_unmanaged.
DeleteOneUngated(st, sec, settings, ids, name) ==
    IF name \notin DOMAIN settings.definitions
    THEN IF name \notin DOMAIN ids THEN Raise(st)
         ELSE MarkChanged(ApiDelete(st, sec, ids[name]))
    ELSE st

\* if downloadclient_name not in self.definitions: if self.delete_unmanaged: ...
DeleteOne(st, sec, settings, ids, name) ==
    IF name \notin DOMAIN settings.definitions /\ settings.delete_unmanaged
    THEN IF name \notin DOMAIN ids THEN Raise(st)
         ELSE MarkChanged(ApiDelete(st, sec, ids[name]))
    ELSE st

RECURSIVE DeleteLoop(_, _, _, _, _)
DeleteLoop(st, sec, settings, ids, names) ==
    IF names = <<>> \/ st.failed THEN st
    ELSE DeleteLoop(DeleteOne(st, sec, settings, ids, Head(names)),
                    sec, settings, ids, Tail(names))

\* RadarrDownloadClientsSettings.delete_remote
CollectionDeleteRemote(st, sec, settings, remoteSettings) ==
    LET s1 == ApiRead(st, sec, "list")
        ids == [n \in DOMAIN st.remote[sec] |-> st.remote[sec][n].id]
    IN  DeleteLoop(s1, sec, settings, ids, SeqOfNames(DOMAIN remoteSettings.definitions))

(***************************************************************************)
(* Tags: labels are created before every other section runs.  The remote   *)
(* tag table is the map label -> id, which is also the tag_ids map the     *)
(* other sections build from list_tag().                                   *)
(***************************************************************************)
RECURSIVE TagLoop(_, _)
TagLoop(st, labels) ==
    IF labels = {} THEN st
    ELSE LET t == CHOOSE x \in labels : TRUE
             table == st.remote.tags
             id == 1 + MaxOf({table[x] : x \in DOMAIN table})
             made == [Logged(st, "tags", "create", t, [label |-> t])
                         EXCEPT !.remote.tags = Merge(table, [x \in {t} |-> id])]
         IN  TagLoop(MarkChanged(made), labels \ {t})

TagsUpdateRemote(st, settings) ==
    TagLoop(ApiRead(st, "tags", "list"), settings.definitions \ DOMAIN st.remote.tags)

TagsFromRemote(r) == [definitions |-> DOMAIN r.tags]

(***************************************************************************)
(* Quality definitions.                                                    *)
(***************************************************************************)
QualityNames == {"Q"}
QualityOrder == <<"Q">>

\* The remote_map literal of RadarrQualitySettings.update_remote.
QualityRemoteMap ==
    << Entry("title", "title", FALSE, "title"),
       Entry("min", "minSize", FALSE, "plain"),
       Entry("max", "maxSize", FALSE, "plain") >>

\* title=(api.title if api.title != api.quality.name else None)
QualityTitleFromRemote(res) ==
    IF res.title # res.name THEN Some(res.title) ELSE NoneVal

\* RadarrQualitySettings.from_remote
QualityFromRemote(r) ==
    [definitions |->
        [n \in DOMAIN r.quality |->
            [title |-> QualityTitleFromRemote(r.quality[n]),
             min   |-> r.quality[n].minSize,
             preferred |-> r.quality[n].preferredSize,
             max   |-> r.quality[n].maxSize]]]

QualityOne(st, settings, remoteSettings, apis, name) ==
    IF name \notin DOMAIN remoteSettings.definitions THEN Raise(st)
    ELSE LET got == GetUpdateRemoteAttrs(settings.definitions[name],
                                        remoteSettings.definitions[name],
                                        QualityRemoteMap, Ctx(EmptyMap, name), FALSE)
         IN  IF got.changed
             THEN MarkChanged(ApiUpdate(st, "quality", apis[name].id,
                                        Merge(apis[name], got.attrs)))
             ELSE st

RECURSIVE QualityLoop(_, _, _, _, _)
QualityLoop(st, settings, remoteSettings, apis, names) ==
    IF names = <<>> \/ st.failed THEN st
    ELSE QualityLoop(QualityOne(st, settings, remoteSettings, apis, Head(names)),
                     settings, remoteSettings, apis, Tail(names))

\* RadarrQualitySettings.update_remote
QualityUpdateRemote(st, settings, remoteSettings) ==
    QualityLoop(ApiRead(st, "quality", "list"), settings, remoteSettings, st.remote.quality,
                SelectSeq(QualityOrder, LAMBDA n : n \in DOMAIN settings.definitions))

(***************************************************************************)
(* Single-resource sections: naming, media management, UI, and the         *)
(* sections whose modules are not part of the source tree.                 *)
(***************************************************************************)
NamingRemoteMap == << Entry("rename_movies", "renameMovies", FALSE, "plain") >>

MediaManagementRemoteMap ==
    << Entry("delete_empty_folders", "deleteEmptyFolders", FALSE, "plain") >>

UIRemoteMap == << Entry("theme", "theme", FALSE, "plain") >>

ValueRemoteMap == << Entry("value", "value", FALSE, "plain") >>

\* PUT of a configuration singleton.
ApiPut(st, key, res) ==
    IF Rejects(st, key, key)
    THEN Raise(Logged(st, key, "update", key, res))
    ELSE [Logged(st, key, "update", key, res) EXCEPT !.remote[key] = res]

\* A variant that sends the id and the attributes of the remote map alone.
ConfigUpdateRemotePatch(st, key, map, settings, remoteSettings) ==
    LET got == GetUpdateRemoteAttrs(settings, remoteSettings, map, Ctx(EmptyMap, key), TRUE)
    IN  IF got.changed
        THEN LET s1 == ApiRead(st, key, "get")
             IN  MarkChanged(ApiPut(s1, key, Merge([id |-> st.remote[key].id], got.attrs)))
        ELSE st

\* _update_remote_naming / _update_remote_mediamanagement: the delta is computed
\* first; the configuration is read and rewritten only when something changed.
ConfigUpdateRemote(st, key, map, settings, remoteSettings) ==
    LET got == GetUpdateRemoteAttrs(settings, remoteSettings, map, Ctx(EmptyMap, key), TRUE)
    IN  IF got.changed
        THEN LET s1 == ApiRead(st, key, "get")
             IN  MarkChanged(ApiPut(s1, key, Merge(st.remote[key], got.attrs)))
        ELSE st

\* RadarrUISettings.update_remote
UIUpdateRemote(st, settings, remoteSettings) ==
    LET s1 == ApiRead(st, "ui", "list_language")
        got == GetUpdateRemoteAttrs(settings, remoteSettings, UIRemoteMap,
                                    Ctx(EmptyMap, "ui"), TRUE)
    IN  IF got.changed
        THEN LET s2 == ApiRead(s1, "ui", "get")
             IN  MarkChanged(ApiPut(s2, "ui", Merge([id |-> st.remote.ui.id], got.attrs)))
        ELSE s1

(***************************************************************************)
(* Root folders.                                                           *)
(***************************************************************************)
RootFolderOne(st, ids, path) ==
    IF path \in DOMAIN ids THEN st
    ELSE MarkChanged(ApiCreate(st, "root_folders", [name |-> path, path |-> path]))

RECURSIVE RootFolderLoop(_, _, _)
RootFolderLoop(st, ids, paths) ==
    IF paths = <<>> \/ st.failed THEN st
    ELSE RootFolderLoop(RootFolderOne(st, ids, Head(paths)), ids, Tail(paths))

\* RootFoldersSettings.update_remote
RootFoldersUpdateRemote(st, settings) ==
    LET ids == [p \in DOMAIN st.remote.root_folders |-> st.remote.root_folders[p].id]
    IN  RootFolderLoop(ApiRead(st, "root_folders", "list"), ids,
                       SeqOfPaths(settings.definitions))

\* A variant that deletes unmanaged root folders without consulting
\* delete_unmanaged.
RootFolderDeleteOneUngated(st, settings, ids, path) ==
    IF path \notin settings.definitions
    THEN MarkChanged(ApiDelete(st, "root_folders", ids[path]))
    ELSE st

\* if root_folder not in local_rootfolders: if self.delete_unmanaged: ...
RootFolderDeleteOne(st, settings, ids, path) ==
    IF path \notin settings.definitions /\ settings.delete_unmanaged
    THEN MarkChanged(ApiDelete(st, "root_folders", ids[path]))
    ELSE st

RECURSIVE RootFolderDeleteLoop(_, _, _, _)
RootFolderDeleteLoop(st, settings, ids, paths) ==
    IF paths = <<>> THEN st
    ELSE RootFolderDeleteLoop(RootFolderDeleteOne(st, settings, ids, Head(paths)),
                              settings, ids, Tail(paths))

\* RootFoldersSettings.delete_remote
RootFoldersDeleteRemote(st, settings) ==
    LET ids == [p \in DOMAIN st.remote.root_folders |-> st.remote.root_folders[p].id]
    IN  RootFolderDeleteLoop(ApiRead(st, "root_folders", "list"), settings, ids,
                             SeqOfPaths(DOMAIN ids))

\* any([naming, media management, root folders]): all three run, in this order.
MediaManagementUpdateRemote(st, settings, remoteSettings) ==
    LET s1 == ConfigUpdateRemote([st EXCEPT !.changed = FALSE], "naming", NamingRemoteMap,
                                 settings, remoteSettings)
        s2 == ConfigUpdateRemote([s1 EXCEPT !.changed = FALSE], "mediamanagement",
                                 MediaManagementRemoteMap, settings, remoteSettings)
        s3 == RootFoldersUpdateRemote([s2 EXCEPT !.changed = FALSE], settings.root_folders)
    IN  IF s1.failed THEN s1
        ELSE IF s2.failed THEN s2
        ELSE [s3 EXCEPT !.changed = s1.changed \/ s2.changed \/ s3.changed]

\* RadarrMediaManagementSettings.from_remote
MediaManagementFromRemote(r) ==
    Merge(Merge(GetLocalAttrs(NamingRemoteMap, r.naming, Ctx(EmptyMap, "")),
                GetLocalAttrs(MediaManagementRemoteMap, r.mediamanagement, Ctx(EmptyMap, ""))),
          [root_folders |-> [delete_unmanaged |-> FALSE,
                             definitions |-> DOMAIN r.root_folders]])

(***************************************************************************)
(* The settings tree.                                                      *)
(***************************************************************************)
\* The sections declared as fields of RadarrSettings.
DeclaredSections ==
    {"media_management", "profiles", "quality", "custom_formats", "indexers",
     "download_clients", "lists", "connect", "metadata", "tags", "general", "ui"}

\* A variant of the list literal with indexers listed before download clients.
UpdateOrderIndexersFirst ==
    << "tags", "quality", "indexers", "download_clients", "media_management",
       "profiles", "lists", "connect", "metadata", "general", "ui" >>

\* The list literal of RadarrSettings.update_remote, in evaluation order.
UpdateOrder ==
    << "tags", "quality", "download_clients", "indexers", "media_management",
       "profiles", "lists", "connect", "metadata", "general", "ui" >>

\* The list literal of RadarrSettings.delete_remote, in evaluation order.
DeleteOrder ==
    << "profiles", "indexers", "download_clients", "media_management", "lists",
       "connect", "tags", "quality", "metadata", "general", "ui" >>

\* from_remote of every section: the decoded snapshot of the remote instance.
FromRemote(r) ==
    [sec \in DeclaredSections |->
        CASE sec = "tags" -> TagsFromRemote(r)
          [] sec = "quality" -> QualityFromRemote(r)
          [] sec \in Collections ->
                [delete_unmanaged |-> FALSE, definitions |-> CollectionFromRemote(r, sec)]
          [] sec = "media_management" -> MediaManagementFromRemote(r)
          [] sec = "ui" -> GetLocalAttrs(UIRemoteMap, r.ui, Ctx(EmptyMap, ""))
          [] OTHER -> GetLocalAttrs(ValueRemoteMap, r[sec], Ctx(EmptyMap, ""))]

\* A variant in which a collection's update_remote also prunes the remote
\* resources that have no local definition.
SectionUpdateRemotePruning(st, sec) ==
    CASE sec = "tags" -> TagsUpdateRemote(st, local.tags)
      [] sec = "quality" -> QualityUpdateRemote(st, local.quality, snap.quality)
      [] sec \in Collections ->
            CollectionDeleteRemote(
                CollectionUpdateRemote(st, sec, local[sec], snap[sec]), sec,
                [local[sec] EXCEPT !.delete_unmanaged = TRUE], snap[sec])
      [] sec = "media_management" ->
            MediaManagementUpdateRemote(st, local.media_management, snap.media_management)
      [] sec = "ui" -> UIUpdateRemote(st, local.ui, snap.ui)
      [] OTHER -> ConfigUpdateRemote(st, sec, ValueRemoteMap, local[sec], snap[sec])

\* <section>.update_remote(tree, secrets, remote.<section>)
SectionUpdateRemote(st, sec) ==
    CASE sec = "tags" -> TagsUpdateRemote(st, local.tags)
      [] sec = "quality" -> QualityUpdateRemote(st, local.quality, snap.quality)
      [] sec \in Collections -> CollectionUpdateRemote(st, sec, local[sec], snap[sec])
      [] sec = "media_management" ->
            MediaManagementUpdateRemote(st, local.media_management, snap.media_management)
      [] sec = "ui" -> UIUpdateRemote(st, local.ui, snap.ui)
      [] OTHER -> ConfigUpdateRemote(st, sec, ValueRemoteMap, local[sec], snap[sec])

\* <section>.delete_remote(tree, secrets, remote.<section>); a section that
\* defines none deletes nothing, media management delegates to its root folders.
SectionDeleteRemote(st, sec) ==
    CASE sec \in Collections -> CollectionDeleteRemote(st, sec, local[sec], snap[sec])
      [] sec = "media_management" ->
            RootFoldersDeleteRemote(st, local.media_management.root_folders)
      [] OTHER -> st

\* The calls a section made, labelled with the section that made them.
Labelled(cs, sec) == [i \in DOMAIN cs |-> Merge(cs[i], [section |-> sec])]

\* A variant that reduces with a short-circuiting "or" chain instead of any([...]).
AdvanceShortCircuit(rest, value) == IF value THEN <<>> ELSE Tail(rest)

\* What is left of the list once an element has been evaluated.
Advance(rest, value) == Tail(rest)

(***************************************************************************)
(* Actions.                                                                *)
(***************************************************************************)
\* The caller reads the remote instance before it starts an operation.
Fetch ==
    /\ pc = "idle"
    /\ ~fresh
    /\ snap' = FromRemote(remote)
    /\ fresh' = TRUE
    /\ UNCHANGED <<local, remote, pc, op, todo, calls, results, rets, before>>

Begin(kind, sections) ==
    /\ pc = "idle"
    /\ fresh
    /\ pc' = kind
    /\ op' = kind
    /\ todo' = sections
    /\ calls' = <<>>
    /\ results' = <<>>
    /\ before' = remote
    /\ UNCHANGED <<local, remote, snap, fresh, rets>>

\* One element of the list literal: a section's handler, run to its end.
Step(kind, sec) ==
    /\ pc = kind
    /\ todo # <<>>
    /\ Head(todo) = sec
    /\ LET st == IF kind = "update"
                 THEN SectionUpdateRemote(Start(remote), sec)
                 ELSE SectionDeleteRemote(Start(remote), sec)
       IN  /\ remote' = st.remote
           /\ calls' = calls \o Labelled(st.calls, sec)
           /\ fresh' = (fresh /\ st.remote = remote)
           /\ IF st.failed
              THEN /\ pc' = "failed"
                   /\ UNCHANGED <<todo, results>>
              ELSE /\ pc' = pc
                   /\ results' = Append(results, [sec |-> sec, value |-> st.changed])
                   /\ todo' = Advance(todo, st.changed)
    /\ UNCHANGED <<local, snap, op, rets, before>>

\* return any([...])
Return ==
    /\ pc \in {"update", "delete"}
    /\ todo = <<>>
    /\ rets' = Append(rets, [op |-> op, value |-> AnyOf(results)])
    /\ pc' = "idle"
    /\ UNCHANGED <<local, remote, snap, fresh, op, todo, calls, results, before>>

\* RadarrSettings.update_remote, then RadarrSettings.delete_remote.
SettingsUpdateRemote == rets = <<>> /\ Begin("update", UpdateOrder)
SettingsDeleteRemote == Len(rets) = 1 /\ Begin("delete", DeleteOrder)

UpdateTags == Step("update", "tags")
UpdateQuality == Step("update", "quality")
UpdateDownloadClients == Step("update", "download_clients")
UpdateIndexers == Step("update", "indexers")
UpdateMediaManagement == Step("update", "media_management")
UpdateProfiles == Step("update", "profiles")
UpdateLists == Step("update", "lists")
UpdateConnect == Step("update", "connect")
UpdateMetadata == Step("update", "metadata")
UpdateGeneral == Step("update", "general")
UpdateUI == Step("update", "ui")

DeleteTags == Step("delete", "tags")
DeleteQuality == Step("delete", "quality")
DeleteDownloadClients == Step("delete", "download_clients")
DeleteIndexers == Step("delete", "indexers")
DeleteMediaManagement == Step("delete", "media_management")
DeleteProfiles == Step("delete", "profiles")
DeleteLists == Step("delete", "lists")
DeleteConnect == Step("delete", "connect")
DeleteMetadata == Step("delete", "metadata")
DeleteGeneral == Step("delete", "general")
DeleteUI == Step("delete", "ui")

(***************************************************************************)
(* Initial states.                                                         *)
(***************************************************************************)
DefaultClient == [enable |-> TRUE, priority |-> 1, tags |-> {}, host |-> "h1"]

\* A download client as the remote instance holds it: the attributes of the
\* remote map, and attributes the remote map does not cover.
Resource(name, id, e, table) ==
    [id |-> id, name |-> name, implementation |-> "Transmission",
     enable |-> e.enable, priority |-> e.priority,
     tags |-> {table[t] : t \in e.tags},
     removeCompletedDownloads |-> FALSE,
     fields |-> << [name |-> "host", value |-> e.host],
                   [name |-> "urlBase", value |-> "/custom/"] >>]

IdOf == [n \in Names |-> IF n = "X" THEN 1 ELSE 2]

\* A collection holding the entities es (a map name -> entity).
RemoteCollection(es, table) ==
    [n \in DOMAIN es |-> Resource(n, IdOf[n], es[n], table)]

RemoteFolders(paths) ==
    [p \in paths |-> [id |-> IF p = "/a" THEN 1 ELSE 2, name |-> p, path |-> p]]

RemoteQuality(title, min, max) ==
    [n \in QualityNames |->
        [id |-> 1, name |-> n, title |-> title, minSize |-> min, maxSize |-> max,
         preferredSize |-> 95, weight |-> 1]]

\* The two set-ups of a collection in a whole-tree run: "sync" has the local
\* definition X and an identical remote X beside an unmanaged Y; "create" has
\* the local definition X and only the unmanaged Y on the remote.
Modes == {"sync", "create"}
RunCollections == Collections \ {"custom_formats"}

LocalCollection(flag) ==
    [delete_unmanaged |-> flag, definitions |-> [n \in {"X"} |-> DefaultClient]]

ModeCollection(mode) ==
    RemoteCollection([n \in (IF mode = "sync" THEN {"X", "Y"} ELSE {"Y"}) |-> DefaultClient],
                     EmptyMap)

TreeLocal(flag, tags, quality, folders, naming, mm, metadata, general, theme) ==
    [sec \in DeclaredSections |->
        CASE sec = "tags" -> [definitions |-> tags]
          [] sec = "quality" -> [definitions |-> quality]
          [] sec \in Collections -> LocalCollection(flag)
          [] sec = "media_management" ->
                [rename_movies |-> naming, delete_empty_folders |-> mm,
                 root_folders |-> [delete_unmanaged |-> flag, definitions |-> folders]]
          [] sec = "metadata" -> [value |-> metadata]
          [] sec = "general" -> [value |-> general]
          [] OTHER -> [theme |-> theme]]

TreeRemote(modes, table, quality, folders) ==
    [key \in (DeclaredSections \ {"media_management"})
                \cup {"root_folders", "naming", "mediamanagement"} |->
        CASE key = "tags" -> table
          [] key = "quality" -> quality
          [] key = "custom_formats" -> ModeCollection("create")
          [] key \in Collections -> ModeCollection(modes[key])
          [] key = "root_folders" -> RemoteFolders(folders)
          [] key = "naming" -> [id |-> 1, renameMovies |-> FALSE, includeQuality |-> TRUE]
          [] key = "mediamanagement" ->
                [id |-> 1, deleteEmptyFolders |-> FALSE, recycleBin |-> "/bin"]
          [] key = "ui" -> [id |-> 1, theme |-> "auto"]
          [] OTHER -> [id |-> 1, value |-> FALSE, extra |-> "kept"]]

Idle ==
    /\ fresh = FALSE
    /\ pc = "idle"
    /\ op = "none"
    /\ todo = <<>>
    /\ calls = <<>>
    /\ results = <<>>
    /\ rets = <<>>
    /\ before = remote
    /\ snap = FromRemote(remote)

LocalQualities ==
    {EmptyMap} \cup
    {[n \in QualityNames |-> [title |-> NoneVal, min |-> 1, preferred |-> 95,
                              max |-> NoneVal]]}

\* Whole-tree runs: three collections are set up independently (indexers go
\* with download clients, connections with lists), and at most one of the
\* naming / media management configurations and at most one of the metadata /
\* general configurations differs from the remote instance.
TreeModes(dc, pr, li) ==
    [c \in RunCollections |->
        CASE c \in {"download_clients", "indexers"} -> dc
          [] c = "profiles" -> pr
          [] OTHER -> li]

Init ==
    /\ \E flag \in BOOLEAN, tags \in SUBSET TagLabels, quality \in LocalQualities,
          mmDiff \in {"none", "naming", "mediamanagement"},
          cfgDiff \in {"none", "metadata", "general"},
          theme \in {"auto", "dark"} :
            local = TreeLocal(flag, tags, quality, {"/a"},
                              mmDiff = "naming", mmDiff = "mediamanagement",
                              cfgDiff = "metadata", cfgDiff = "general", theme)
    /\ \E dc \in Modes, pr \in Modes, li \in Modes, folders \in {{"/b"}, {"/a", "/b"}} :
            remote = TreeRemote(TreeModes(dc, pr, li), EmptyMap,
                                RemoteQuality("Q", 0, NoneVal), folders)
    /\ Idle

Next ==
    \/ Fetch
    \/ SettingsUpdateRemote
    \/ UpdateTags
    \/ UpdateQuality
    \/ UpdateDownloadClients
    \/ UpdateIndexers
    \/ UpdateMediaManagement
    \/ UpdateProfiles
    \/ UpdateLists
    \/ UpdateConnect
    \/ UpdateMetadata
    \/ UpdateGeneral
    \/ UpdateUI
    \/ SettingsDeleteRemote
    \/ DeleteProfiles
    \/ DeleteIndexers
    \/ DeleteDownloadClients
    \/ DeleteMediaManagement
    \/ DeleteLists
    \/ DeleteConnect
    \/ DeleteTags
    \/ DeleteQuality
    \/ DeleteMetadata
    \/ DeleteGeneral
    \/ DeleteUI
    \/ Return

Spec == Init /\ [][Next]_vars

(***************************************************************************)
(* Properties of the orchestrator (specification Spec).                    *)
(***************************************************************************)
\* The sections whose handlers have left a trace: a result or a remote call.
Visited == {results[i].sec : i \in DOMAIN results}
Started == Visited \cup {calls[i].section : i \in DOMAIN calls}
Returned(kind) == pc = "idle" /\ op = kind /\ rets # <<>> /\ rets[Len(rets)].op = kind

\* The order of reconciliation as the specification states it.
StatedUpdateOrder ==
    << "tags", "quality", "download_clients", "indexers", "media_management",
       "profiles", "lists", "connect", "metadata", "general", "ui" >>

Rank(order, sec) ==
    IF \E i \in DOMAIN order : order[i] = sec
    THEN CHOOSE i \in DOMAIN order : order[i] = sec
    ELSE 0

\* C1: update_remote reconciles the sections one after another in the order
\* tags, quality, download_clients, indexers, media_management, profiles,
\* lists, connect, metadata, general, ui: in the call log of an update run no
\* call of a later section precedes a call of an earlier section, and the
\* sections return in that order.
C1_UpdateOrder ==
    op = "update" =>
        /\ \A i, j \in DOMAIN calls :
              i < j => Rank(StatedUpdateOrder, calls[i].section)
                          <= Rank(StatedUpdateOrder, calls[j].section)
        /\ \A i \in DOMAIN results : results[i].sec = StatedUpdateOrder[i]

\* An update run has returned after calls of at least four sections.
C1_Witness ==
    /\ Returned("update")
    /\ Len(results) = Len(StatedUpdateOrder)
    /\ Cardinality({calls[i].section : i \in DOMAIN calls}) >= 4
    /\ \E i, j \in DOMAIN calls :
          calls[i].section = "download_clients" /\ calls[j].section = "indexers"

\* The reference pairs (A, B): entities of A name entities of B.
ReferencePairs ==
    { <<"indexers", "download_clients">>, <<"indexers", "tags">>,
      <<"download_clients", "tags">>, <<"connect", "tags">>, <<"lists", "tags">>,
      <<"lists", "profiles">>, <<"profiles", "custom_formats">>,
      <<"profiles", "quality">> }

\* C2: for every reference pair (A, B), delete_remote completes the deletion
\* pass of A before it starts the deletion pass of B.
C2_DeleteReferencingFirst ==
    op = "delete" =>
        \A pair \in ReferencePairs : pair[2] \in Started => pair[1] \in Visited

\* C3: every section declared on RadarrSettings has its handler invoked
\* exactly once per update_remote run and exactly once per delete_remote run.
C3_EverySectionOnce ==
    (Returned("update") \/ Returned("delete")) =>
        \A sec \in DeclaredSections :
            Cardinality({i \in DOMAIN results : results[i].sec = sec}) = 1

\* C4: update_remote and delete_remote return the logical OR of the
\* per-section results, and every listed section is invoked whatever the
\* earlier sections returned: while an operation runs, the sections visited
\* and the sections still to visit make up the whole list, and on return
\* every listed section has a result.
C4_OrOfAllSections ==
    LET order == IF op = "update" THEN UpdateOrder ELSE DeleteOrder
    IN  /\ pc \in {"update", "delete"} =>
              [i \in DOMAIN results |-> results[i].sec] \o todo = order
        /\ (Returned("update") \/ Returned("delete")) =>
              /\ [i \in DOMAIN results |-> results[i].sec] = order
              /\ rets[Len(rets)].value = (\E i \in DOMAIN results : results[i].value)

\* An update run returned True although its first section returned True and
\* a later one False, and a later one True again.
C4_Witness ==
    /\ Returned("update")
    /\ rets[Len(rets)].value
    /\ \E i, j, k \in DOMAIN results :
          i < j /\ j < k /\ results[i].value /\ ~results[j].value /\ results[k].value

\* The remote collections that hold named entities, and the names the local
\* configuration defines in each.
EntityKeys == (Collections \ {"custom_formats"}) \cup {"root_folders", "quality", "tags"}

LocalNames(key) ==
    CASE key = "root_folders" -> local.media_management.root_folders.definitions
      [] key = "tags" -> local.tags.definitions
      [] OTHER -> DOMAIN local[key].definitions

\* C10: no section's update_remote issues a delete call, and every remote
\* entity that has no local definition still exists, unchanged, during and
\* after the update run.
C10_UpdateNeverDeletes ==
    op = "update" =>
        /\ \A i \in DOMAIN calls : calls[i].op # "delete"
        /\ \A key \in EntityKeys :
              \A n \in (DOMAIN before[key]) \ LocalNames(key) :
                  n \in DOMAIN remote[key] /\ remote[key][n] = before[key][n]

\* An update run that changed the download clients has returned while the
\* remote instance held an unmanaged download client and an unmanaged root
\* folder, with delete_unmanaged set.
C10_Witness ==
    /\ Returned("update")
    /\ local.download_clients.delete_unmanaged
    /\ "Y" \in (DOMAIN before.download_clients) \ LocalNames("download_clients")
    /\ "/b" \in (DOMAIN before.root_folders) \ LocalNames("root_folders")
    /\ \E i \in DOMAIN calls :
          calls[i].section = "download_clients" /\ calls[i].op = "create"

(***************************************************************************)
(* The download client collection on its own (specification SpecDC): its    *)
(* update_remote and delete_remote are called directly, on definitions     *)
(* drawn from the whole attribute space.                                   *)
(***************************************************************************)
DownloadClients ==
    [enable : BOOLEAN, priority : 1..MaxPriority, tags : SUBSET TagLabels, host : Hosts]

Opt(S) == {NoneVal} \cup {Some(e) : e \in S}

\* The definitions map holding x under "X" and y under "Y", where present.
Definitions(x, y) ==
    [n \in {m \in Names : (IF m = "X" THEN x ELSE y) # NoneVal} |->
        IF n = "X" THEN x[1] ELSE y[1]]

TagTables == {EmptyMap, [t \in TagLabels |-> 1]}

InitDC ==
    /\ \E flag \in BOOLEAN,
          x \in Opt(DownloadClients),
          y \in Opt({DefaultClient, [DefaultClient EXCEPT !.tags = TagLabels]}) :
            local = [TreeLocal(FALSE, {}, EmptyMap, {"/a"}, FALSE, FALSE, FALSE, FALSE, "auto")
                        EXCEPT !.download_clients =
                            [delete_unmanaged |-> flag, definitions |-> Definitions(x, y)]]
    /\ \E table \in TagTables :
          \E x \in Opt({e \in DownloadClients : e.tags \subseteq DOMAIN table}),
             y \in Opt({DefaultClient}) :
            remote = [TreeRemote([c \in RunCollections |-> "sync"], table,
                                 RemoteQuality("Q", 0, NoneVal), {"/a"})
                        EXCEPT !.download_clients =
                            RemoteCollection(Definitions(x, y), table)]
    /\ Idle

\* settings.download_clients.update_remote(...), at most once per behaviour.
CallUpdateRemote ==
    /\ rets = <<>>
    /\ Begin("update", <<"download_clients">>)

\* settings.download_clients.delete_remote(...), first or after the update.
CallDeleteRemote ==
    /\ Len(rets) <= 1
    /\ op # "delete"
    /\ Begin("delete", <<"download_clients">>)

NextDC ==
    \/ Fetch
    \/ CallUpdateRemote
    \/ UpdateDownloadClients
    \/ CallDeleteRemote
    \/ DeleteDownloadClients
    \/ Return

SpecDC == InitDC /\ [][NextDC]_vars

(***************************************************************************)
(* Properties of a definitions collection (specification SpecDC).  They    *)
(* are stated for a handler that has returned: the snapshot it was given   *)
(* is still snap, the remote instance it started from is before.           *)
(***************************************************************************)
LocalDC == local.download_clients.definitions
SnapDC == snap.download_clients.definitions
BeforeDC == before.download_clients

SectionReturned(kind) == pc = kind /\ Len(results) = 1

\* The positions in the call log of the calls of one kind that carry name n.
CallsOf(kind, n) ==
    {i \in DOMAIN calls :
        calls[i].sec = "download_clients" /\ calls[i].op = kind /\ calls[i].name = n}

\* The attributes the remote map of a download client covers.
MappedAttrs == {"enable", "priority", "tags", "host"}

Differs(n) == \E a \in MappedAttrs : LocalDC[n][a] # SnapDC[n][a]

\* C5: in a definitions collection's update_remote, for every local
\* definition whose name is absent from the remote snapshot exactly one
\* create call carrying that name is issued, no update call is issued for it,
\* and the returned changed flag is True.
C5_CreateAbsent ==
    SectionReturned("update") =>
        \A n \in (DOMAIN LocalDC) \ (DOMAIN SnapDC) :
            /\ Cardinality(CallsOf("create", n)) = 1
            /\ \A i \in CallsOf("create", n) : calls[i].payload.name = n
            /\ CallsOf("update", n) = {}
            /\ results[1].value

\* update_remote has returned after it created X, the only change it had to
\* make: Y is defined locally as it is on the remote instance.
C5_Witness ==
    /\ SectionReturned("update")
    /\ DOMAIN LocalDC = {"X", "Y"}
    /\ DOMAIN SnapDC = {"Y"}
    /\ ~Differs("Y")
    /\ "X" \in DOMAIN remote.download_clients

\* C6: for a name present both locally and in the remote snapshot, an update
\* call is issued if and only if a mapped attribute differs; when none
\* differs no mutating call is made for the entity, and the collection
\* returns True exactly when some entity was created or updated.
C6_UpdateIffDelta ==
    SectionReturned("update") =>
        /\ \A n \in (DOMAIN LocalDC) \cap (DOMAIN SnapDC) :
              /\ Cardinality(CallsOf("update", n)) = (IF Differs(n) THEN 1 ELSE 0)
              /\ CallsOf("create", n) = {}
              /\ CallsOf("delete", n) = {}
              /\ ~Differs(n) => remote.download_clients[n] = BeforeDC[n]
        /\ results[1].value =
              (\E n \in DOMAIN LocalDC : n \notin DOMAIN SnapDC \/ Differs(n))

\* update_remote has returned True after it updated X, which differed, and
\* left alone Y, which did not.
C6_Witness ==
    /\ SectionReturned("update")
    /\ DOMAIN LocalDC = {"X", "Y"}
    /\ DOMAIN SnapDC = {"X", "Y"}
    /\ Differs("X")
    /\ ~Differs("Y")
    /\ results[1].value

\* A second case of C6: nothing differs, nothing is sent, False is returned.
C6_NoChangeReached ==
    /\ SectionReturned("update")
    /\ DOMAIN LocalDC = {"X", "Y"}
    /\ DOMAIN SnapDC = {"X", "Y"}
    /\ ~Differs("X")
    /\ ~Differs("Y")
    /\ ~results[1].value

\* The value the update payload p holds for the mapped attribute a.
PayloadValue(p, a) == IF a = "host" THEN FieldValue(p.fields, "host") ELSE p[a]

\* The remote value the local value v of the mapped attribute a stands for.
RemoteForm(a, v) == IF a = "tags" THEN {before.tags[t] : t \in v} ELSE v

\* C7: when a local download client differs from its same-named remote
\* counterpart in a mapped attribute, update_remote issues exactly one update
\* call for it; the payload carries the local value of every changed
\* attribute and, for every attribute of the remote resource that is not in
\* the remote map, the value held by the remote resource; the result is True.
C7_UpdatePayload ==
    SectionReturned("update") =>
        \A n \in (DOMAIN LocalDC) \cap (DOMAIN SnapDC) :
            Differs(n) =>
                /\ Cardinality(CallsOf("update", n)) = 1
                /\ results[1].value
                /\ \A i \in CallsOf("update", n) :
                      LET p == calls[i].payload
                      IN  /\ \A a \in MappedAttrs :
                                LocalDC[n][a] # SnapDC[n][a] =>
                                    PayloadValue(p, a) = RemoteForm(a, LocalDC[n][a])
                          /\ DOMAIN p = DOMAIN BeforeDC[n]
                          /\ \A k \in (DOMAIN p) \ {"enable", "priority", "tags", "fields"} :
                                p[k] = BeforeDC[n][k]
                          /\ Len(p.fields) = Len(BeforeDC[n].fields)
                          /\ \A j \in DOMAIN p.fields :
                                /\ p.fields[j].name = BeforeDC[n].fields[j].name
                                /\ p.fields[j].name # "host" =>
                                      p.fields[j] = BeforeDC[n].fields[j]

\* update_remote has returned after it raised the priority of X from 1 to
\* MaxPriority; X holds remote-only values that differ from the schema's.
C7_Witness ==
    /\ SectionReturned("update")
    /\ "X" \in (DOMAIN LocalDC) \cap (DOMAIN SnapDC)
    /\ SnapDC["X"].priority = 1
    /\ LocalDC["X"].priority = MaxPriority
    /\ BeforeDC["X"].removeCompletedDownloads # DownloadClientSchema.removeCompletedDownloads
    /\ remote.download_clients["X"].priority = MaxPriority
    /\ CallsOf("update", "X") # {}

C8_GateClosedReached ==
    /\ SectionReturned("delete")
    /\ ~local.download_clients.delete_unmanaged
    /\ DOMAIN LocalDC = {"X"}
    /\ DOMAIN SnapDC = {"X", "Y"}
    /\ ~results[1].value

(***************************************************************************)
(* Repeated update runs (specification SpecIdem): the quality definitions  *)
(* and the download clients are reconciled up to MaxUpdateRuns times, each *)
(* run on a freshly read snapshot, the local configuration staying as it   *)
(* is.                                                                     *)
(***************************************************************************)
\* title is Optional[str] without a validator; max passes validate_min_max
\* (at least 1 above min) or is None.
QualityDefinitions ==
    [title : {NoneVal, Some(""), Some("Q"), Some("T")}, min : {0, 1}, preferred : {95},
     max : {NoneVal, Some(2)}]

IdemOrder == <<"quality", "download_clients">>

InitIdem ==
    /\ \E q \in Opt(QualityDefinitions),
          x \in Opt({DefaultClient, [DefaultClient EXCEPT !.priority = MaxPriority]}) :
            local = [TreeLocal(FALSE, {}, EmptyMap, {"/a"}, FALSE, FALSE, FALSE, FALSE, "auto")
                        EXCEPT !.quality =
                                  [definitions |-> [n \in {m \in QualityNames : q # NoneVal}
                                                        |-> q[1]]],
                               !.download_clients =
                                  [delete_unmanaged |-> FALSE,
                                   definitions |-> Definitions(x, NoneVal)]]
    /\ \E title \in {"Q", "T"}, min \in {0, 1}, max \in {NoneVal, Some(2)},
          x \in Opt({DefaultClient}) :
            remote = [TreeRemote([c \in RunCollections |-> "sync"], EmptyMap,
                                 RemoteQuality(title, min, max), {"/a"})
                        EXCEPT !.download_clients =
                            RemoteCollection(Definitions(x, NoneVal), EmptyMap)]
    /\ Idle

\* One more update run with the same local configuration.
RunUpdateRemote ==
    /\ Len(rets) < MaxUpdateRuns
    /\ Begin("update", IdemOrder)

NextIdem ==
    \/ Fetch
    \/ RunUpdateRemote
    \/ UpdateQuality
    \/ UpdateDownloadClients
    \/ Return

SpecIdem == InitIdem /\ [][NextIdem]_vars

Mutating(i) == calls[i].op \in {"create", "update"}

\* C9: after an update_remote run that succeeded, a second run with the same
\* local configuration and a freshly read snapshot issues no create or
\* update call and returns False.
C9_SecondRunIdle ==
    (op = "update" /\ rets # <<>> /\ pc \in {"update", "idle"}) =>
        /\ (Len(rets) >= 2 \/ pc = "update") => (\A i \in DOMAIN calls : ~Mutating(i))
        /\ (Len(rets) >= 2 /\ pc = "idle") => ~rets[Len(rets)].value

\* The same statement for the download clients alone, which the repeated
\* run does leave alone.
IdemDownloadClients ==
    (op = "update" /\ rets # <<>> /\ pc \in {"update", "idle"}) =>
        ((Len(rets) >= 2 \/ pc = "update") =>
            (\A i \in DOMAIN calls : calls[i].sec = "download_clients" => ~Mutating(i)))

(***************************************************************************)
(* Failures (specification SpecDC).                                        *)
(***************************************************************************)
\* The local definitions with a tag label the remote tag table lacks.
MissingTag == {n \in DOMAIN LocalDC : ~(LocalDC[n].tags \subseteq DOMAIN before.tags)}

HandlerRan(kind) == op = kind /\ calls # <<>>

\* C11: encoding a download client whose tags contain a label absent from
\* the tag name-to-id map raises: the handler fails, no create or update call
\* is issued for that entity, and every create or update that is issued
\* carries the id of every label of its entity.
C11_MissingTagRaises ==
    HandlerRan("update") =>
        /\ MissingTag # {} => pc = "failed" /\ results = <<>>
        /\ \A n \in MissingTag : CallsOf("create", n) = {} /\ CallsOf("update", n) = {}
        /\ \A i \in DOMAIN calls :
              (calls[i].op \in {"create", "update"}) =>
                  calls[i].payload.tags =
                      {before.tags[t] : t \in LocalDC[calls[i].name].tags}

\* update_remote failed on Y, whose label the empty tag table lacks, after
\* it had created X.
C11_Witness ==
    /\ HandlerRan("update")
    /\ pc = "failed"
    /\ MissingTag = {"Y"}
    /\ "Y" \notin DOMAIN SnapDC
    /\ CallsOf("create", "X") # {}

(***************************************************************************)
(* The fields array of a create payload (specification SpecDC).            *)
(***************************************************************************)
\* The entries of the remote map that live in the fields array.
FieldEntries ==
    {i \in DOMAIN DownloadClientRemoteMap : DownloadClientRemoteMap[i].is_field}

\* The field a create call for definition n has to send for schema field f.
StatedField(n, f) ==
    IF \E i \in FieldEntries : DownloadClientRemoteMap[i].r = f.name
    THEN LET e == DownloadClientRemoteMap[
                      CHOOSE i \in FieldEntries : DownloadClientRemoteMap[i].r = f.name]
         IN  Merge(f, [value |-> Encode(e, LocalDC[n][e.l], Ctx(before.tags, n))])
    ELSE f

\* C14: on create the fields array of the payload holds exactly the fields of
\* the variant's schema, in schema order; a field of the remote map carries
\* the encoded local value, every other field the value of the schema.
C14_CreateFields ==
    op = "update" =>
        \A i \in DOMAIN calls :
            calls[i].op = "create" =>
                /\ Len(calls[i].payload.fields) = Len(DownloadClientSchema.fields)
                /\ \A j \in DOMAIN DownloadClientSchema.fields :
                      calls[i].payload.fields[j] =
                          StatedField(calls[i].name, DownloadClientSchema.fields[j])

\* update_remote has created X, whose host is not the host of the schema; the
\* stored resource has the schema's urlBase.
C14_Witness ==
    /\ SectionReturned("update")
    /\ CallsOf("create", "X") # {}
    /\ LocalDC["X"].host # FieldValue(DownloadClientSchema.fields, "host")
    /\ FieldValue(remote.download_clients["X"].fields, "host") = LocalDC["X"].host
    /\ FieldValue(remote.download_clients["X"].fields, "urlBase")
          = FieldValue(DownloadClientSchema.fields, "urlBase")

(***************************************************************************)
(* Quality profiles.  An entry of qualities is a plain quality (its name)  *)
(* or a QualityGroup (name, members); both are held as one record shape.   *)
(***************************************************************************)
MaxScore == 2

GroupIdBase == 1000

PlainQualities == {"A", "B", "C"}
\* list_quality_definition() sorted by weight, highest first.
QualityWeightOrder == <<"C", "B", "A">>
CustomFormatOrder == <<"E", "F", "U">>

Plain(q) == [group |-> FALSE, name |-> q, members |-> {}]
QualityGroup(n, ms) == [group |-> TRUE, name |-> n, members |-> ms]

\* for name in quality.members if isinstance(quality, QualityGroup) else [quality]
NamesOf(quality) == IF quality.group THEN quality.members ELSE {quality.name}

\* validate_qualities: a quality value may appear once, grouped or not.
ValidateQualities(value) ==
    /\ Len(value) >= 1
    /\ \A i, j \in DOMAIN value : i < j => NamesOf(value[i]) \cap NamesOf(value[j]) = {}

\* The variant of validate_upgrade_until_quality without the membership loop.
ValidateUpgradeUntilAnyName(value, values) ==
    IF ~({"upgrades_allowed", "qualities"} \subseteq DOMAIN values)
    THEN [ok |-> TRUE, value |-> value]
    ELSE IF ~values.upgrades_allowed
    THEN [ok |-> TRUE, value |-> NoneVal]
    ELSE IF value = NoneVal
    THEN [ok |-> FALSE, value |-> value]
    ELSE [ok |-> TRUE, value |-> value]
\* The variant of validate_upgrade_until_quality without the "required" check.
ValidateUpgradeUntilOptional(value, values) ==
    IF ~({"upgrades_allowed", "qualities"} \subseteq DOMAIN values)
    THEN [ok |-> TRUE, value |-> value]
    ELSE IF ~values.upgrades_allowed
    THEN [ok |-> TRUE, value |-> NoneVal]
    ELSE IF value = NoneVal
    THEN [ok |-> TRUE, value |-> value]
    ELSE [ok |-> \E i \in DOMAIN values.qualities : values.qualities[i].name = value[1],
          value |-> value]
\* validate_upgrade_until_quality: values holds the fields validated so far.
ValidateUpgradeUntilQuality(value, values) ==
    IF ~({"upgrades_allowed", "qualities"} \subseteq DOMAIN values)
    THEN [ok |-> TRUE, value |-> value]
    ELSE IF ~values.upgrades_allowed
    THEN [ok |-> TRUE, value |-> NoneVal]
    ELSE IF value = NoneVal
    THEN [ok |-> FALSE, value |-> value]
    ELSE [ok |-> \E i \in DOMAIN values.qualities : values.qualities[i].name = value[1],
          value |-> value]

\* Construction of a QualityProfile: the fields are validated in declaration
\* order, a field that failed is absent from values.
ValidateProfile(raw) ==
    LET qok    == ValidateQualities(raw.qualities)
        values == IF qok
                  THEN [upgrades_allowed |-> raw.upgrades_allowed, qualities |-> raw.qualities]
                  ELSE [upgrades_allowed |-> raw.upgrades_allowed]
        until  == ValidateUpgradeUntilQuality(raw.upgrade_until_quality, values)
    IN  [ok      |-> qok /\ until.ok,
         profile |-> [raw EXCEPT !.upgrade_until_quality = until.value]]

\* {group.name: 1000 + i for i, group in enumerate(groups, 1)}: of two groups
\* with one name the later one sets the id.
GroupIds(qualities) ==
    LET groups == SelectSeq(qualities, LAMBDA q : q.group)
    IN  [n \in {groups[i].name : i \in DOMAIN groups} |->
            GroupIdBase + MaxOf({i \in DOMAIN groups : groups[i].name = n})]

Reversed(s) == [i \in 1..Len(s) |-> s[Len(s) + 1 - i]]

\* _quality_str_encoder
QualityStrEncoder(apiQualities, q, allowed) ==
    [quality |-> apiQualities[q], items |-> <<>>, allowed |-> allowed]

\* QualityGroup.encode; the members are listed in weight order.
GroupEncode(g, groupId, apiQualities) ==
    [id |-> groupId, name |-> g.name, allowed |-> TRUE,
     items |-> [i \in DOMAIN SelectSeq(QualityWeightOrder, LAMBDA q : q \in g.members) |->
                  QualityStrEncoder(apiQualities,
                      SelectSeq(QualityWeightOrder, LAMBDA q : q \in g.members)[i], TRUE)]]

\* _qualities_encoder: the enabled entries in local order, then the remaining
\* remote qualities disabled, the whole list reversed.  A name the remote
\* quality table lacks raises KeyError.
QualitiesEncoder(apiQualities, groupIds, qualities) ==
    LET enabled == UNION {NamesOf(qualities[i]) : i \in DOMAIN qualities}
        ok      == /\ enabled \subseteq DOMAIN apiQualities
                   /\ \A i \in DOMAIN qualities :
                        qualities[i].group => qualities[i].name \in DOMAIN groupIds
        on      == [i \in DOMAIN qualities |->
                      IF qualities[i].group
                      THEN GroupEncode(qualities[i], groupIds[qualities[i].name], apiQualities)
                      ELSE QualityStrEncoder(apiQualities, qualities[i].name, TRUE)]
        rest    == SelectSeq(QualityWeightOrder,
                       LAMBDA q : q \in DOMAIN apiQualities /\ q \notin enabled)
        off     == [i \in DOMAIN rest |-> QualityStrEncoder(apiQualities, rest[i], FALSE)]
    IN  [ok |-> ok, value |-> IF ok THEN Reversed(on \o off) ELSE <<>>]

\* _upgrade_until_quality_encoder
UpgradeUntilQualityEncoder(apiQualities, groupIds, qualities, upgradeUntil) ==
    IF upgradeUntil = NoneVal
    THEN LET quality == qualities[1]
         IN  IF quality.group
             THEN [ok    |-> quality.name \in DOMAIN groupIds,
                   value |-> IF quality.name \in DOMAIN groupIds
                             THEN Some(groupIds[quality.name]) ELSE NoneVal]
             ELSE [ok    |-> quality.name \in DOMAIN apiQualities,
                   value |-> IF quality.name \in DOMAIN apiQualities
                             THEN Some(apiQualities[quality.name].id) ELSE NoneVal]
    ELSE IF upgradeUntil[1] \in DOMAIN groupIds
    THEN [ok |-> TRUE, value |-> Some(groupIds[upgradeUntil[1]])]
    ELSE [ok    |-> upgradeUntil[1] \in DOMAIN apiQualities,
          value |-> IF upgradeUntil[1] \in DOMAIN apiQualities
                    THEN Some(apiQualities[upgradeUntil[1]].id) ELSE NoneVal]

\* "root_encoder" of the cutoff entry: lambda vs: ..(qualities=vs.qualities,
\* upgrade_until=vs.upgrade_until); reading an attribute the profile object
\* does not have raises AttributeError.
CutoffRootEncoder(vs, apiQualities, groupIds) ==
    IF "upgrade_until" \notin DOMAIN vs
    THEN [ok |-> FALSE, value |-> NoneVal]
    ELSE UpgradeUntilQualityEncoder(apiQualities, groupIds, vs.qualities, vs.upgrade_until)

FormatRank(n) == CHOOSE i \in DOMAIN CustomFormatOrder : CustomFormatOrder[i] = n

\* key=lambda f: (-f["score"], f["name"])
FormatBefore(x, y) ==
    \/ x.score > y.score
    \/ x.score = y.score /\ FormatRank(x.name) <= FormatRank(y.name)

RECURSIVE SortedFormatItems(_)
SortedFormatItems(S) ==
    IF S = {} THEN <<>>
    ELSE LET m == CHOOSE x \in S : \A y \in S : FormatBefore(x, y)
         IN  <<m>> \o SortedFormatItems(S \ {m})

\* "encoder" of the custom_formats entry: one item per remote custom format,
\* scored v.get(name, 0).
CustomFormatsEncoder(apiCustomFormats, v) ==
    [ok    |-> TRUE,
     value |-> SortedFormatItems(
                   {[format |-> apiCustomFormats[n], name |-> n,
                     score  |-> IF n \in DOMAIN v THEN v[n] ELSE 0] :
                        n \in DOMAIN apiCustomFormats})]

Lowered ==
    [English |-> "english",
     RTorrent |-> "rtorrent", RTORRENT |-> "rtorrent",
     Transmission |-> "transmission", TRANSMISSION |-> "transmission",
     RadarrImport |-> "radarrimport", RADARRIMPORT |-> "radarrimport",
     TraktListImport |-> "traktlistimport", TRAKTLISTIMPORT |-> "traktlistimport",
     Webhook |-> "webhook", WEBHOOK |-> "webhook",
     Apprise |-> "apprise", APPRISE |-> "apprise",
     SourceSpecification |-> "sourcespecification",
     SOURCESPECIFICATION |-> "sourcespecification",
     EditionSpecification |-> "editionspecification",
     EDITIONSPECIFICATION |-> "editionspecification",
     Unknown |-> "unknown"]

Lower(s) == IF s \in DOMAIN Lowered THEN Lowered[s] ELSE s

\* "encoder" of the language entry: api_languages[v.lower()]
LanguageEncoder(apiLanguages, v) ==
    [ok    |-> Lower(v) \in DOMAIN apiLanguages,
     value |-> IF Lower(v) \in DOMAIN apiLanguages
               THEN [id |-> apiLanguages[Lower(v)].id, name |-> apiLanguages[Lower(v)].name]
               ELSE EmptyMap]

\* get_create_remote_attrs over QualityProfile._get_remote_map: the entries
\* are encoded in map order, the first encoder that raises ends the call.
ProfileCreateRemoteAttrs(profile, apiQualities, apiCustomFormats, apiLanguages, groupIds) ==
    LET items    == QualitiesEncoder(apiQualities, groupIds, profile.qualities)
        cutoff   == CutoffRootEncoder(profile, apiQualities, groupIds)
        formats  == CustomFormatsEncoder(apiCustomFormats, profile.custom_formats)
        language == LanguageEncoder(apiLanguages, profile.language)
        ok       == items.ok /\ cutoff.ok /\ formats.ok /\ language.ok
    IN  [ok    |-> ok,
         attrs |-> IF ok
                   THEN [upgradeAllowed    |-> profile.upgrades_allowed,
                         items             |-> items.value,
                         cutoff            |-> cutoff.value[1],
                         cutoffFormatScore |-> profile.minimum_custom_format_score,
                         formatItems       |-> formats.value,
                         language          |-> language.value]
                   ELSE EmptyMap]

\* QualityProfile._create_remote
ProfileCreateRemote(st, profile, apiQualities, apiCustomFormats, apiLanguages, name) ==
    LET got == ProfileCreateRemoteAttrs(profile, apiQualities, apiCustomFormats,
                                        apiLanguages, GroupIds(profile.qualities))
    IN  IF got.ok
        THEN ApiCreate(st, "profiles", Merge([name |-> name], got.attrs))
        ELSE Raise(st)

\* RadarrQualityProfilesSettings.update_remote for one definition the remote
\* instance lacks: the four lists are read, then the profile is created.
ProfilesUpdateRemote(st, definitions) ==
    LET r1 == ApiRead(st, "profiles", "list")
        r2 == ApiRead(r1, "profiles", "list_quality_definition")
        r3 == ApiRead(r2, "profiles", "list_custom_format")
        r4 == ApiRead(r3, "profiles", "list_language")
        name == CHOOSE n \in DOMAIN definitions : TRUE
        made == ProfileCreateRemote(r4, definitions[name], st.remote.qualities,
                                    st.remote.custom_formats, st.remote.languages, name)
    IN  IF made.failed THEN made ELSE MarkChanged(made)

(***************************************************************************)
(* Specification SpecProfile: one quality profile "P" is written, validated*)
(* and then encoded for a remote instance that has no profile yet.  local  *)
(* holds the configuration as written (raw) and, once construction         *)
(* succeeded, the validated object (profile).  An omitted                  *)
(* upgrade_until_quality and a null one are the same input: its default is *)
(* None and the validators run on defaults.                                *)
(***************************************************************************)
ApiQualities ==
    [q \in PlainQualities |->
        [id |-> CHOOSE i \in DOMAIN QualityWeightOrder : QualityWeightOrder[i] = q, name |-> q]]

ApiLanguages == [l \in {"english"} |-> [id |-> 1, name |-> "English"]]

QualityLists ==
    { <<Plain("A")>>,
      <<Plain("B"), Plain("A")>>,
      <<QualityGroup("G", {"B", "C"}), Plain("A")>>,
      <<Plain("A"), QualityGroup("G", {"B", "C"})>>,
      <<Plain("A"), QualityGroup("G", {"A", "C"})>> }

UntilNames == {"A", "B", "G"}

LocalCustomFormats == UNION {[S -> 1..MaxScore] : S \in SUBSET {"F", "U"}}

RemoteCustomFormats == {[n \in S |-> FormatRank(n)] : S \in SUBSET {"E", "F"}}

ProfileInput(allowed, qualities, until, formats) ==
    [upgrades_allowed |-> allowed, qualities |-> qualities,
     upgrade_until_quality |-> until, minimum_custom_format_score |-> 0,
     custom_formats |-> formats, language |-> "English"]

InitProfile ==
    \E allowed \in BOOLEAN, qualities \in QualityLists, until \in Opt(UntilNames),
       formats \in LocalCustomFormats, api \in RemoteCustomFormats :
        /\ local = [raw |-> ProfileInput(allowed, qualities, until, formats),
                    profile |-> NoneVal]
        /\ remote = [profiles |-> EmptyMap, qualities |-> ApiQualities,
                     custom_formats |-> api, languages |-> ApiLanguages]
        /\ snap = [profiles |-> EmptyMap]
        /\ fresh = FALSE
        /\ pc = "idle"
        /\ op = "none"
        /\ todo = <<>>
        /\ calls = <<>>
        /\ results = <<>>
        /\ rets = <<>>
        /\ before = remote

\* QualityProfile(**attrs): pydantic runs the validators.
Validate ==
    /\ pc = "idle"
    /\ LET v == ValidateProfile(local.raw)
       IN  /\ local' = [local EXCEPT !.profile = IF v.ok THEN Some(v.profile) ELSE NoneVal]
           /\ pc' = IF v.ok THEN "valid" ELSE "rejected"
    /\ op' = "validate"
    /\ UNCHANGED <<remote, snap, fresh, todo, calls, results, rets, before>>

Encoded(entry, got) ==
    /\ pc = "valid"
    /\ pc' = "encoded"
    /\ op' = "encode"
    /\ results' = <<[entry |-> entry, ok |-> got.ok, value |-> got.value]>>
    /\ UNCHANGED <<local, remote, snap, fresh, todo, calls, rets, before>>

\* The custom_formats entry of the remote map applied to the profile.
EncodeCustomFormats ==
    /\ pc = "valid"
    /\ Encoded("formatItems",
               CustomFormatsEncoder(remote.custom_formats, local.profile[1].custom_formats))

\* The upgrade_until_quality entry of the remote map applied to the profile.
EncodeCutoff ==
    /\ pc = "valid"
    /\ Encoded("cutoff",
               CutoffRootEncoder(local.profile[1], remote.qualities,
                                 GroupIds(local.profile[1].qualities)))

\* _upgrade_until_quality_encoder called on the validated fields directly.
EncodeUpgradeUntil ==
    /\ pc = "valid"
    /\ Encoded("upgrade_until",
               UpgradeUntilQualityEncoder(remote.qualities,
                   GroupIds(local.profile[1].qualities), local.profile[1].qualities,
                   local.profile[1].upgrade_until_quality))

CallProfilesUpdateRemote ==
    /\ pc = "valid"
    /\ LET st == ProfilesUpdateRemote(Start(remote), [n \in {"P"} |-> local.profile[1]])
       IN  /\ remote' = st.remote
           /\ calls' = st.calls
           /\ pc' = IF st.failed THEN "failed" ELSE "returned"
           /\ results' = IF st.failed THEN <<>> ELSE <<[value |-> st.changed]>>
    /\ op' = "update"
    /\ UNCHANGED <<local, snap, fresh, todo, rets, before>>

NextProfile ==
    \/ Validate
    \/ EncodeCustomFormats
    \/ EncodeCutoff
    \/ EncodeUpgradeUntil
    \/ CallProfilesUpdateRemote

SpecProfile == InitProfile /\ [][NextProfile]_vars

(***************************************************************************)
(* Quality profile encoding (specification SpecProfile).                   *)
(***************************************************************************)
EncodedEntry(entry) == pc = "encoded" /\ results[1].entry = entry

\* The custom formats the profile names that the remote list lacks.
UnknownFormats == DOMAIN local.raw.custom_formats \ DOMAIN remote.custom_formats

\* C12: encoding the custom_formats of a quality profile that names a custom
\* format absent from the remote custom-format list fails with an error; the
\* name is not dropped from the encoded formatItems.
C12_UnknownCustomFormatRaises ==
    (EncodedEntry("formatItems") /\ UnknownFormats # {}) => ~results[1].ok

\* The id of the first entry of qualities: the remote quality id of a plain
\* quality, the assigned group id of a quality group.
FirstEntryId ==
    LET quality == local.raw.qualities[1]
    IN  IF quality.group
        THEN GroupIds(local.raw.qualities)[quality.name]
        ELSE remote.qualities[quality.name].id

Accepted == local.profile # NoneVal

\* Validation with upgrades_allowed=False clears upgrade_until_quality.
UpgradeUntilCleared ==
    (Accepted /\ ~local.raw.upgrades_allowed) =>
        local.profile[1].upgrade_until_quality = NoneVal

\* _upgrade_until_quality_encoder, given the validated fields of a profile
\* with upgrades_allowed=False, returns the id of the first entry.
EncoderPicksFirstEntry ==
    (EncodedEntry("upgrade_until") /\ ~local.raw.upgrades_allowed) =>
        results[1].ok /\ results[1].value = Some(FirstEntryId)

\* C18: for a quality profile with upgrades_allowed=False,
\* upgrade_until_quality is None after validation whatever was supplied, and
\* the cutoff encoded for the remote is the id of the first entry of
\* qualities.
C18_NoUpgradeCutoff ==
    /\ UpgradeUntilCleared
    /\ (EncodedEntry("cutoff") /\ ~local.raw.upgrades_allowed) =>
          results[1].ok /\ results[1].value = Some(FirstEntryId)

EntryNames(qualities) == {qualities[i].name : i \in DOMAIN qualities}

Settled == pc \notin {"idle", "rejected"}

\* C19: a quality profile with upgrades_allowed=True whose
\* upgrade_until_quality is neither a plain quality nor a group name listed
\* in qualities is rejected at validation: it is never accepted, nothing is
\* encoded and no remote call is made.
C19_UnknownUpgradeUntilRejected ==
    (/\ local.raw.upgrades_allowed
     /\ local.raw.upgrade_until_quality # NoneVal
     /\ local.raw.upgrade_until_quality[1] \notin EntryNames(local.raw.qualities))
        => ~Accepted /\ ~Settled /\ calls = <<>> /\ results = <<>>

\* Validation rejected a profile whose qualities are valid and whose
\* upgrade_until_quality names a member of a group, not an entry.
C19_Witness ==
    /\ pc = "rejected"
    /\ local.raw.upgrades_allowed
    /\ ValidateQualities(local.raw.qualities)
    /\ local.raw.upgrade_until_quality = Some("B")
    /\ "B" \notin EntryNames(local.raw.qualities)
    /\ \E i \in DOMAIN local.raw.qualities : "B" \in local.raw.qualities[i].members

RefusedWrites ==
    { <<"quality", "Q">>, <<"download_clients", "X">>, <<"download_clients", "Y">>,
      <<"indexers", "X">>, <<"naming", "naming">>,
      <<"mediamanagement", "mediamanagement">>, <<"root_folders", "/a">>,
      <<"lists", "X">>, <<"ui", "ui">> }

RemoteClients ==
    { EmptyMap,
      [n \in {"Y"} |-> DefaultClient],
      [n \in {"Y"} |-> [DefaultClient EXCEPT !.priority = MaxPriority]] }

InitFail ==
    /\ \E flag \in BOOLEAN, mm \in BOOLEAN :
            local = [TreeLocal(flag, {}, CHOOSE q \in LocalQualities : q # EmptyMap,
                               {"/a"}, TRUE, mm, TRUE, FALSE, "dark")
                        EXCEPT !.download_clients.definitions =
                                    [n \in Names |-> DefaultClient]]
    /\ \E clients \in RemoteClients, refused \in {{}} \cup {{w} : w \in RefusedWrites} :
            remote = Merge([TreeRemote([c \in RunCollections |-> "create"], EmptyMap,
                                       RemoteQuality("Q", 0, NoneVal), {"/b"})
                                EXCEPT !.download_clients =
                                    RemoteCollection(clients, EmptyMap)],
                           [rejects |-> refused])
    /\ Idle

SpecFail == InitFail /\ [][Next]_vars

(***************************************************************************)
(* Failure of a remote call (specification SpecFail).                      *)
(***************************************************************************)
IsWrite(c) == c.op \in {"create", "update"}

Refused(c) == IsWrite(c) /\ <<c.sec, c.name>> \in remote.rejects

\* The write c is in the state of the remote instance.
Applied(c) ==
    CASE c.sec = "tags" -> c.name \in DOMAIN remote.tags
      [] c.sec \in {"naming", "mediamanagement", "ui", "metadata", "general"} ->
            remote[c.sec] = c.payload
      [] OTHER ->
            /\ c.name \in DOMAIN remote[c.sec]
            /\ Without(remote[c.sec][c.name], {"id"}) = Without(c.payload, {"id"})

\* C13: when a remote call fails during update_remote the exception
\* propagates: the run returns nothing, no mutating call follows the failed
\* one (no later entity of the collection, no later section), the failing
\* section and the sections after it have no result, and every create or
\* update that succeeded before the failure is still applied.
C13_FailureStopsRun ==
    op = "update" =>
        /\ \A i, j \in DOMAIN calls : (i < j /\ Refused(calls[i])) => ~IsWrite(calls[j])
        /\ \A i \in DOMAIN calls :
              Refused(calls[i]) =>
                  /\ pc = "failed"
                  /\ rets = <<>>
                  /\ \A sec \in Visited :
                        Rank(UpdateOrder, sec) < Rank(UpdateOrder, calls[i].section)
                  /\ \A j \in DOMAIN calls :
                        Rank(UpdateOrder, calls[j].section)
                            <= Rank(UpdateOrder, calls[i].section)
        /\ \A i \in DOMAIN calls :
              (IsWrite(calls[i]) /\ ~Refused(calls[i])) => Applied(calls[i])

\* The service refused the creation of download client Y after the quality
\* definition was updated and download client X was created.
C13_Witness ==
    /\ op = "update"
    /\ pc = "failed"
    /\ remote.rejects = {<<"download_clients", "Y">>}
    /\ \E i, j, k \in DOMAIN calls :
          /\ i < j /\ j < k /\ k = Len(calls)
          /\ calls[i].sec = "quality" /\ calls[i].op = "update" /\ Applied(calls[i])
          /\ calls[j].sec = "download_clients" /\ calls[j].op = "create"
          /\ calls[j].name = "X" /\ Applied(calls[j])
          /\ Refused(calls[k])

(***************************************************************************)
(* Update payloads of the sections (specification SpecFail).               *)
(***************************************************************************)
\* The remote map the section uses for the resources of collection sec.
MapOf(sec) ==
    CASE sec \in Collections -> DownloadClientRemoteMap
      [] sec = "quality" -> QualityRemoteMap
      [] sec = "naming" -> NamingRemoteMap
      [] sec = "mediamanagement" -> MediaManagementRemoteMap
      [] sec = "ui" -> UIRemoteMap
      [] OTHER -> ValueRemoteMap

RootCovered(sec) == {MapOf(sec)[i].r : i \in {j \in DOMAIN MapOf(sec) : ~MapOf(sec)[j].is_field}}
FieldCovered(sec) == {MapOf(sec)[i].r : i \in {j \in DOMAIN MapOf(sec) : MapOf(sec)[j].is_field}}

\* The resource an update call addresses, as it was when the run started.
Addressed(c) ==
    IF c.sec \in Collections \cup {"quality"} THEN before[c.sec][c.name] ELSE before[c.sec]

UpdatedIn(sec) == \E i \in DOMAIN calls : calls[i].op = "update" /\ calls[i].sec = sec

IsRead(c) == ~IsWrite(c) /\ c.op # "delete"

MaxLanguageId == 3

LanguageNames == {"english", "french", "original"}

PyStr(s) == <<"str", s>>
PyInt(i) == <<"int", i>>
PyEq(a, b) == a[1] = b[1] /\ a[2] = b[2]

\* "encoder": lambda v: language_ids[v]
UILanguageEncoder(languageIds, v) ==
    [ok    |-> v \in DOMAIN languageIds,
     value |-> IF v \in DOMAIN languageIds THEN Some(PyInt(languageIds[v])) ELSE NoneVal]

\* "decoder": lambda v: next(language_name for language_id, language_name
\* in language_ids.items() if language_id == v).  items() yields (name, id):
\* language_id is bound to the name and language_name to the id; next() on
\* an exhausted generator raises StopIteration.
UILanguageDecoder(languageIds, v) ==
    LET hits == {k \in DOMAIN languageIds : PyEq(PyStr(k), v)}
    IN  [ok    |-> hits # {},
         value |-> IF hits # {}
                   THEN Some(PyInt(languageIds[CHOOSE k \in hits : TRUE]))
                   ELSE NoneVal]

(***************************************************************************)
(* Specification SpecUI: a language attribute of the UI settings is        *)
(* encoded with the language map of the remote instance, and the encoded   *)
(* value is decoded with the same map.                                     *)
(***************************************************************************)
\* language_ids: name_lower -> id of list_language(), ids distinct.
LanguageMaps ==
    {m \in UNION {[S -> 1..MaxLanguageId] : S \in (SUBSET LanguageNames) \ {{}}} :
        \A a, b \in DOMAIN m : a # b => m[a] # m[b]}

InitUI ==
    \E m \in LanguageMaps, name \in LanguageNames,
       field \in {"movie_info_language", "ui_language"} :
        /\ local = [f \in {field} |-> name]
        /\ remote = [languages |-> m]
        /\ snap = EmptyMap
        /\ fresh = FALSE
        /\ pc = "idle"
        /\ op = "none"
        /\ todo = <<>>
        /\ calls = <<>>
        /\ results = <<>>
        /\ rets = <<>>
        /\ before = remote

\* The attribute's entry of RadarrUISettings._get_remote_map, forward.
UIEncode ==
    /\ pc = "idle"
    /\ LET field == CHOOSE f \in DOMAIN local : TRUE
           got == UILanguageEncoder(remote.languages, local[field])
       IN  results' = <<[entry |-> field, ok |-> got.ok, value |-> got.value]>>
    /\ pc' = "encoded"
    /\ op' = "encode"
    /\ UNCHANGED <<local, remote, snap, fresh, todo, calls, rets, before>>

\* The same entry, backward, on the value the encoder returned.
UIDecode ==
    /\ pc = "encoded"
    /\ results[1].ok
    /\ LET got == UILanguageDecoder(remote.languages, results[1].value[1])
       IN  results' = Append(results,
                             [entry |-> results[1].entry, ok |-> got.ok, value |-> got.value])
    /\ pc' = "decoded"
    /\ op' = "decode"
    /\ UNCHANGED <<local, remote, snap, fresh, todo, calls, rets, before>>

NextUI == UIEncode \/ UIDecode

SpecUI == InitUI /\ [][NextUI]_vars

\* C17: for movie_info_language and ui_language, decoding the encoded value
\* with the same language map returns the original language name, for every
\* name the map holds.
C17_LanguageRoundTrip ==
    pc = "decoded" =>
        /\ results[2].ok
        /\ PyEq(results[2].value[1], PyStr(local[results[2].entry]))

(***************************************************************************)
(* Decoding of a remote quality profile.                                   *)
(***************************************************************************)
\* quality_item if "id" in quality_item else quality_item["quality"]
ItemQuality(item) == IF "id" \in DOMAIN item THEN item ELSE item.quality

\* A variant that decodes an unmatched cutoff to None.
UpgradeUntilQualityDecoderDefaulting(items, cutoff) ==
    LET hits == {i \in DOMAIN items : ItemQuality(items[i]).id = cutoff}
    IN  [ok    |-> TRUE,
         value |-> IF hits # {}
                   THEN Some(ItemQuality(items[CHOOSE i \in hits : \A j \in hits : i <= j]).name)
                   ELSE NoneVal]

\* _upgrade_until_quality_decoder: the name of the first item whose id is
\* the cutoff; RuntimeError when no item has it.
UpgradeUntilQualityDecoder(items, cutoff) ==
    LET hits == {i \in DOMAIN items : ItemQuality(items[i]).id = cutoff}
    IN  [ok    |-> hits # {},
         value |-> IF hits # {}
                   THEN Some(ItemQuality(items[CHOOSE i \in hits : \A j \in hits : i <= j]).name)
                   ELSE NoneVal]

\* [member["quality"]["name"] for member in quality["items"]]
MemberNames(item) == {item.items[i].quality.name : i \in DOMAIN item.items}

\* _qualities_decoder: the allowed items in reverse order, an item with
\* members as a QualityGroup.
QualitiesDecoder(value) ==
    LET allowed == SelectSeq(Reversed(value), LAMBDA item : item.allowed)
    IN  [i \in DOMAIN allowed |->
            IF allowed[i].items # <<>>
            THEN QualityGroup(allowed[i].name, MemberNames(allowed[i]))
            ELSE Plain(allowed[i].quality.name)]

\* "decoder": lambda v: {f["name"]: f["score"] for f in v}
CustomFormatsDecoder(v) ==
    [n \in {v[i].name : i \in DOMAIN v} |-> v[CHOOSE i \in DOMAIN v : v[i].name = n].score]

\* QualityProfile._from_remote: get_local_attrs over the remote map, then the
\* construction of the QualityProfile from the decoded attributes.
ProfileFromRemote(res) ==
    LET until == UpgradeUntilQualityDecoder(res.items, res.cutoff)
        raw   == [upgrades_allowed |-> res.upgradeAllowed,
                  qualities |-> QualitiesDecoder(res.items),
                  upgrade_until_quality |-> until.value,
                  minimum_custom_format_score |-> res.cutoffFormatScore,
                  custom_formats |-> CustomFormatsDecoder(res.formatItems),
                  language |-> res.language.name]
        made  == ValidateProfile(raw)
    IN  [ok |-> until.ok /\ made.ok, profile |-> made.profile]

\* RadarrQualityProfilesSettings.from_remote
ProfilesFromRemote(profiles) ==
    [ok          |-> \A n \in DOMAIN profiles : ProfileFromRemote(profiles[n]).ok,
     definitions |-> [n \in DOMAIN profiles |-> ProfileFromRemote(profiles[n]).profile]]

(***************************************************************************)
(* Specification SpecDecode: the remote instance holds one quality profile *)
(* "P", whose items are the encoding of a valid qualities list and whose   *)
(* cutoff is any of a few ids; the profiles are read from it.              *)
(***************************************************************************)
CutoffIds == (1..Cardinality(PlainQualities)) \cup {GroupIdBase + 1, GroupIdBase + 2}

RemoteProfile(qualities, cutoff, allowed, formats) ==
    [id |-> 1, name |-> "P", upgradeAllowed |-> allowed,
     items |-> QualitiesEncoder(ApiQualities, GroupIds(qualities), qualities).value,
     cutoff |-> cutoff, cutoffFormatScore |-> 0,
     formatItems |-> CustomFormatsEncoder(formats, EmptyMap).value,
     language |-> [id |-> 1, name |-> "English"]]

InitDecode ==
    \E qualities \in {q \in QualityLists : ValidateQualities(q)}, cutoff \in CutoffIds,
       allowed \in BOOLEAN, formats \in RemoteCustomFormats :
        /\ remote = [profiles |-> [n \in {"P"} |->
                                      RemoteProfile(qualities, cutoff, allowed, formats)],
                     qualities |-> ApiQualities, custom_formats |-> formats,
                     languages |-> ApiLanguages]
        /\ local = EmptyMap
        /\ snap = [profiles |-> [definitions |-> EmptyMap]]
        /\ fresh = FALSE
        /\ pc = "idle"
        /\ op = "none"
        /\ todo = <<>>
        /\ calls = <<>>
        /\ results = <<>>
        /\ rets = <<>>
        /\ before = remote

CallProfilesFromRemote ==
    /\ pc = "idle"
    /\ LET got == ProfilesFromRemote(remote.profiles)
       IN  /\ pc' = IF got.ok THEN "returned" ELSE "failed"
           /\ snap' = IF got.ok
                      THEN [profiles |-> [definitions |-> got.definitions]]
                      ELSE snap
           /\ fresh' = got.ok
    /\ op' = "from_remote"
    /\ calls' = <<[sec |-> "profiles", op |-> "list", name |-> "", payload |-> EmptyMap]>>
    /\ UNCHANGED <<local, remote, todo, results, rets, before>>

NextDecode == CallProfilesFromRemote

SpecDecode == InitDecode /\ [][NextDecode]_vars

\* The ids an item of the remote profile P answers to.
ItemIds == {ItemQuality(remote.profiles["P"].items[i]).id :
                i \in DOMAIN remote.profiles["P"].items}

\* C21: decoding a remote quality profile whose cutoff is the id of none of
\* its items fails with an error: from_remote returns no profile, and no
\* upgrade_until_quality is made up for it.
C21_UnmatchedCutoffRaises ==
    (op = "from_remote" /\ remote.profiles["P"].cutoff \notin ItemIds) =>
        pc = "failed" /\ snap.profiles.definitions = EmptyMap

\* from_remote failed on a profile without upgrades whose cutoff is the id
\* of no item.
C21_Witness ==
    /\ op = "from_remote"
    /\ pc = "failed"
    /\ ~remote.profiles["P"].upgradeAllowed
    /\ remote.profiles["P"].cutoff \notin ItemIds
    /\ \E i \in DOMAIN remote.profiles["P"].items :
          "id" \in DOMAIN remote.profiles["P"].items[i]

(***************************************************************************)
(* Polymorphic collections: the variant type of a remote entity is looked  *)
(* up by its implementation string.                                        *)
(***************************************************************************)
PolymorphicCollections == {"download_clients", "lists", "connect", "conditions"}

\* The _implementation of the variant types registered for a collection.
Implementations(kind) ==
    CASE kind = "download_clients" -> {"RTorrent", "Transmission"}
      [] kind = "lists"            -> {"RadarrImport", "TraktListImport"}
      [] kind = "connect"          -> {"Webhook", "Apprise"}
      [] kind = "conditions"       -> {"SourceSpecification", "EditionSpecification"}

\* {t._implementation.lower(): t for t in ...}
LoweredTypeMap(kind) ==
    [k \in {Lower(i) : i \in Implementations(kind)} |->
        CHOOSE i \in Implementations(kind) : Lower(i) = k]

\* {condition_type._implementation: condition_type for condition_type in ...}
CONDITION_TYPE_MAP == [k \in Implementations("conditions") |-> k]

\* TYPE_MAP[api_obj.implementation.lower()] for download clients, import
\* lists and notifications; CONDITION_TYPE_MAP[api_condition.implementation]
\* for custom format conditions. A KeyError is ok = FALSE.
ResolveVariant(kind, implementation) ==
    LET map == IF kind = "conditions" THEN CONDITION_TYPE_MAP ELSE LoweredTypeMap(kind)
        key == IF kind = "conditions" THEN implementation ELSE Lower(implementation)
    IN  [ok   |-> key \in DOMAIN map,
         type |-> IF key \in DOMAIN map THEN map[key] ELSE ""]

\* A variant that leaves out the entities whose implementation is unknown.
TypedFromRemoteSkipping(kind, entities) ==
    LET known == {n \in DOMAIN entities : ResolveVariant(kind, entities[n].implementation).ok}
    IN  [ok          |-> TRUE,
         definitions |-> [n \in known |->
                            [type |-> ResolveVariant(kind, entities[n].implementation).type]]]

\* from_remote of a polymorphic collection: the dict comprehension
\* {api_obj.name: TYPE_MAP[...]._from_remote(...) for api_obj in api_objs}.
TypedFromRemote(kind, entities) ==
    [ok          |-> \A n \in DOMAIN entities :
                        ResolveVariant(kind, entities[n].implementation).ok,
     definitions |-> [n \in DOMAIN entities |->
                        [type |-> ResolveVariant(kind, entities[n].implementation).type]]]

(***************************************************************************)
(* Specification SpecResolve: the remote instance holds one or two         *)
(* entities of one polymorphic collection, each with an implementation     *)
(* string in some letter-casing, or one that no variant registers; the     *)
(* collection is read from it.                                             *)
(***************************************************************************)
RemoteImplementations(kind) ==
    {s \in DOMAIN Lowered : \E i \in Implementations(kind) : Lower(s) = Lower(i)}
        \cup {Lower(i) : i \in Implementations(kind)} \cup {"Unknown"}

InitResolve ==
    \E kind \in PolymorphicCollections, present \in (SUBSET {"X", "Y"}) \ {{}} :
      \E impls \in [present -> RemoteImplementations(kind)] :
        /\ remote = [kind |-> kind,
                     entities |-> [n \in present |->
                                     [name |-> n, implementation |-> impls[n]]]]
        /\ local = EmptyMap
        /\ snap = [definitions |-> EmptyMap]
        /\ fresh = FALSE
        /\ pc = "idle"
        /\ op = "none"
        /\ todo = <<>>
        /\ calls = <<>>
        /\ results = <<>>
        /\ rets = <<>>
        /\ before = remote

CallTypedFromRemote ==
    /\ pc = "idle"
    /\ LET got == TypedFromRemote(remote.kind, remote.entities)
       IN  /\ pc' = IF got.ok THEN "returned" ELSE "failed"
           /\ snap' = IF got.ok THEN [definitions |-> got.definitions] ELSE snap
           /\ fresh' = got.ok
    /\ op' = "from_remote"
    /\ calls' = <<[sec |-> remote.kind, op |-> "list", name |-> "", payload |-> EmptyMap]>>
    /\ UNCHANGED <<local, remote, todo, results, rets, before>>

NextResolve == CallTypedFromRemote

SpecResolve == InitResolve /\ [][NextResolve]_vars

\* The registered variants an implementation string names when letter-casing
\* is disregarded.
VariantsNamed(kind, implementation) ==
    {i \in Implementations(kind) : Lower(i) = Lower(implementation)}

\* C22: in every polymorphic collection, a remote implementation string that
\* is a registered variant's name in any letter-casing resolves to that
\* variant: reading the collection succeeds and each entity is given the
\* variant its implementation names.
C22_CasingInsensitiveResolution ==
    (op = "from_remote" /\
     \A n \in DOMAIN remote.entities :
        VariantsNamed(remote.kind, remote.entities[n].implementation) # {}) =>
        /\ pc = "returned"
        /\ \A n \in DOMAIN remote.entities :
              snap.definitions[n].type \in
                  VariantsNamed(remote.kind, remote.entities[n].implementation)

\* C23: reading a polymorphic collection fails when a remote entity's
\* implementation string names no registered variant, and a collection that
\* was returned holds every remote entity.
C23_UnregisteredImplementationRaises ==
    op = "from_remote" =>
        /\ (\E n \in DOMAIN remote.entities :
               VariantsNamed(remote.kind, remote.entities[n].implementation) = {})
              => (pc = "failed" /\ snap.definitions = EmptyMap)
        /\ pc = "returned" => DOMAIN snap.definitions = DOMAIN remote.entities

\* Reading download clients failed: X is of a registered variant, Y is not.
C23_Witness ==
    /\ op = "from_remote"
    /\ pc = "failed"
    /\ remote.kind = "download_clients"
    /\ DOMAIN remote.entities = {"X", "Y"}
    /\ remote.entities["X"].implementation = "RTorrent"
    /\ remote.entities["Y"].implementation = "Unknown"

(***************************************************************************)
(* Secrets: RadarrSecrets.get obtains the API key, from the configuration  *)
(* or from /initialize.json, and tests it with a system status call.       *)
(***************************************************************************)
ApiKeys == {"k1", "k2"}

\* The outcomes of api_get(host_url, "/initialize.json"): the document, or a
\* RadarrAPIError carrying the status code of the response.
InitializeStatuses == {"OK", "UNAUTHORIZED", "FORBIDDEN", "INTERNAL_SERVER_ERROR"}

\* The outcomes of SystemApi.get_system_status for a key the instance
\* accepts; a key it does not accept is an UnauthorizedException.
StatusFaults == {"none", "ServiceException"}

\* The instance's answer to the system status call made with api_key.
GetSystemStatus(instance, api_key) ==
    IF api_key # instance.accepts THEN [raised |-> "UnauthorizedException"]
    ELSE IF instance.fault # "none" THEN [raised |-> instance.fault]
    ELSE [raised |-> "none", version |-> instance.version]

\* A variant that answers every 'initialize.json' error with the
\* 'authentication is enabled' error.
FetchApiKeyAnyError(config, instance) ==
    IF config.api_key # NoneVal
    THEN [ok |-> TRUE, api_key |-> config.api_key[1]]
    ELSE IF instance.initialize # "OK"
    THEN [ok |-> FALSE,
          error |-> [type |-> "RadarrSecretsUnauthorizedError",
                     message |-> "Authentication is enabled",
                     status_code |-> "UNAUTHORIZED"]]
    ELSE [ok |-> TRUE, api_key |-> instance.apiKey]

\* The first half of get: the configured key, or initialize_json["apiKey"].
FetchApiKey(config, instance) ==
    IF config.api_key # NoneVal
    THEN [ok |-> TRUE, api_key |-> config.api_key[1]]
    ELSE IF instance.initialize = "UNAUTHORIZED"
    THEN [ok |-> FALSE,
          error |-> [type |-> "RadarrSecretsUnauthorizedError",
                     message |-> "Authentication is enabled",
                     status_code |-> "UNAUTHORIZED"]]
    ELSE IF instance.initialize # "OK"
    THEN [ok |-> FALSE,
          error |-> [type |-> "RadarrAPIError",
                     message |-> "api_get",
                     status_code |-> instance.initialize]]
    ELSE [ok |-> TRUE, api_key |-> instance.apiKey]

\* RadarrSecrets.get
SecretsGet(config, instance) ==
    LET key    == FetchApiKey(config, instance)
        status == GetSystemStatus(instance, key.api_key)
    IN  IF ~key.ok THEN [ok |-> FALSE, error |-> key.error, calls |-> <<"initialize.json">>]
        ELSE LET made == IF config.api_key # NoneVal THEN <<"system_status">>
                         ELSE <<"initialize.json", "system_status">>
             IN  IF status.raised = "UnauthorizedException"
                 THEN [ok |-> FALSE,
                       error |-> [type |-> "RadarrSecretsUnauthorizedError",
                                  message |-> "Incorrect API key",
                                  status_code |-> "UNAUTHORIZED"],
                       calls |-> made]
                 ELSE IF status.raised # "none"
                 THEN [ok |-> FALSE,
                       error |-> [type |-> status.raised, message |-> "system_status",
                                  status_code |-> "INTERNAL_SERVER_ERROR"],
                       calls |-> made]
                 ELSE [ok |-> TRUE,
                       secrets |-> [hostname |-> config.hostname, api_key |-> key.api_key,
                                    version |-> status.version],
                       calls |-> made]

(***************************************************************************)
(* Specification SpecSecrets: a configuration with or without an API key,  *)
(* an instance with the key it accepts, its answer to /initialize.json     *)
(* (an error, or a document with a key) and to the system status call; the *)
(* secrets are fetched once.                                               *)
(***************************************************************************)
InitSecrets ==
    \E configured \in {NoneVal} \cup {Some(k) : k \in ApiKeys}, key \in ApiKeys,
       accepts \in ApiKeys,
       initialize \in InitializeStatuses, fault \in StatusFaults, host \in Hosts :
        /\ local = [hostname |-> host, api_key |-> configured]
        /\ remote = [apiKey |-> key, accepts |-> accepts, initialize |-> initialize, fault |-> fault,
                     version |-> "4.7"]
        /\ snap = EmptyMap
        /\ fresh = FALSE
        /\ pc = "idle"
        /\ op = "none"
        /\ todo = <<>>
        /\ calls = <<>>
        /\ results = <<>>
        /\ rets = <<>>
        /\ before = remote

CallSecretsGet ==
    /\ pc = "idle"
    /\ LET got == SecretsGet(local, remote)
       IN  /\ pc' = IF got.ok THEN "returned" ELSE "failed"
           /\ snap' = IF got.ok THEN got.secrets ELSE snap
           /\ results' = IF got.ok THEN results ELSE <<got.error>>
           /\ calls' = got.calls
           /\ fresh' = got.ok
    /\ op' = "get"
    /\ UNCHANGED <<local, remote, todo, rets, before>>

NextSecrets == CallSecretsGet

SpecSecrets == InitSecrets /\ [][NextSecrets]_vars

\* The error get ended with, when it failed.
Raised == results[1]

\* The key get has to use: the configured one, else the fetched one.
KeyInUse == IF local.api_key # NoneVal THEN local.api_key[1] ELSE remote.apiKey

\* C24: get tells two authentication failures apart. With no key configured:
\* a 401 to /initialize.json is the 'authentication is enabled' error and any
\* other error of that fetch is raised as it came. A system status call
\* refused as unauthorized is the 'incorrect API key' error. The secrets are
\* returned only after the system status call succeeded, with the key used.
C24_TwoAuthenticationFailures ==
    op = "get" =>
        /\ (local.api_key = NoneVal /\ remote.initialize = "UNAUTHORIZED") =>
              (pc = "failed" /\ Raised.type = "RadarrSecretsUnauthorizedError"
                             /\ Raised.message = "Authentication is enabled")
        /\ (local.api_key = NoneVal /\ remote.initialize \notin {"OK", "UNAUTHORIZED"}) =>
              (pc = "failed" /\ Raised.type = "RadarrAPIError"
                             /\ Raised.status_code = remote.initialize)
        /\ ((local.api_key # NoneVal \/ remote.initialize = "OK") /\
            KeyInUse # remote.accepts) =>
              (pc = "failed" /\ Raised.type = "RadarrSecretsUnauthorizedError"
                             /\ Raised.message = "Incorrect API key")
        /\ pc = "returned" =>
              /\ calls[Len(calls)] = "system_status"
              /\ remote.fault = "none"
              /\ snap.api_key = KeyInUse
              /\ KeyInUse = remote.accepts
              /\ snap.version = remote.version

\* No key was configured and the fetch of /initialize.json was answered with
\* an error other than 401.
C24_Witness ==
    /\ op = "get"
    /\ pc = "failed"
    /\ local.api_key = NoneVal
    /\ remote.initialize = "FORBIDDEN"
    /\ Raised.type = "RadarrAPIError"

(***************************************************************************)
(* Notifications: the update of one connection.                            *)
(***************************************************************************)
\* NotificationTriggers._remote_map
TriggersRemoteMap == << Entry("on_health_issue", "onHealthIssue", FALSE, "plain") >>

\* Notification._get_base_remote_map + the variant's _remote_map.
NotificationRemoteMap ==
    << Entry("tags", "tags", FALSE, "tags"),
       Entry("url", "url", TRUE, "plain") >>

\* The variant's entry of the notification schemas.
NotificationSchema ==
    [id |-> 0, name |-> "", implementation |-> "Webhook",
     onHealthIssue |-> FALSE, tags |-> {},
     fields |-> << [name |-> "url", value |-> ""],
                   [name |-> "method", value |-> "POST"] >>]

\* Notification._from_remote
NotificationFromRemote(tagIds, res) ==
    Merge([notification_triggers |-> GetLocalAttrs(TriggersRemoteMap, res, Ctx(tagIds, res.name))],
          GetLocalAttrs(NotificationRemoteMap, res, Ctx(tagIds, res.name)))

\* The "fields" of the update payload: one entry per field of the schema,
\* taken from the remote resource by name (KeyError when it has none) and
\* given the updated value when there is one.
NotificationMergeFields(schemaFields, remoteFields, updated) ==
    LET have  == {remoteFields[i].name : i \in DOMAIN remoteFields}
        named == {updated[i].name : i \in DOMAIN updated}
        of(n) == remoteFields[CHOOSE i \in DOMAIN remoteFields : remoteFields[i].name = n]
        ok    == \A j \in DOMAIN schemaFields : schemaFields[j].name \in have
    IN  [ok    |-> ok,
         value |-> IF ok
                   THEN [j \in DOMAIN schemaFields |->
                            IF schemaFields[j].name \in named
                            THEN Merge(of(schemaFields[j].name),
                                       [value |-> FieldValue(updated, schemaFields[j].name)])
                            ELSE of(schemaFields[j].name)]
                   ELSE <<>>]

\* Notification._update_remote
NotificationUpdateRemote(st, entity, remoteEntity, tagIds, api) ==
    LET trig == GetUpdateRemoteAttrs(entity.notification_triggers,
                                     remoteEntity.notification_triggers,
                                     TriggersRemoteMap, Ctx(tagIds, api.name), FALSE)
        base == GetUpdateRemoteAttrs(entity, remoteEntity, NotificationRemoteMap,
                                     Ctx(tagIds, api.name), FALSE)
        updated == Merge(trig.attrs, base.attrs)
        merged  == NotificationMergeFields(NotificationSchema.fields, api.fields,
                                           updated.fields)
    IN  IF ~trig.ok \/ ~base.ok THEN Raise(st)
        ELSE IF ~(trig.changed \/ base.changed) THEN st
        ELSE IF "fields" \notin DOMAIN updated
        THEN MarkChanged(ApiUpdate(st, "connect", api.id, Merge(api, updated)))
        ELSE IF ~merged.ok THEN Raise(st)
        ELSE MarkChanged(ApiUpdate(st, "connect", api.id,
                            Merge(api, Merge(updated, [fields |-> merged.value]))))

(***************************************************************************)
(* Specification SpecNotify: one Webhook connection X exists remotely and  *)
(* is defined locally. The "fields" of the remote resource are those of    *)
(* the schema, or have one more entry, or lack the schema's second entry.  *)
(***************************************************************************)
Urls == {"u1", "u2"}

NotifyTagIds == [t \in {"t"} |-> 1]

RemoteFieldShapes(url) ==
    { << [name |-> "url", value |-> url], [name |-> "method", value |-> "PUT"] >>,
      << [name |-> "url", value |-> url], [name |-> "method", value |-> "PUT"],
         [name |-> "headers", value |-> "h"] >>,
      << [name |-> "url", value |-> url] >> }

InitNotify ==
    \E url \in Urls, remoteUrl \in Urls, health \in BOOLEAN, remoteHealth \in BOOLEAN,
       tags \in SUBSET DOMAIN NotifyTagIds :
      \E fields \in RemoteFieldShapes(remoteUrl) :
        /\ local = [notification_triggers |-> [on_health_issue |-> health],
                    tags |-> tags, url |-> url]
        /\ remote = [connect |-> [n \in {"X"} |->
                                    [id |-> 1, name |-> "X", implementation |-> "Webhook",
                                     onHealthIssue |-> remoteHealth, tags |-> {},
                                     fields |-> fields]],
                     tags |-> NotifyTagIds]
        /\ snap = EmptyMap
        /\ fresh = FALSE
        /\ pc = "idle"
        /\ op = "none"
        /\ todo = <<>>
        /\ calls = <<>>
        /\ results = <<>>
        /\ rets = <<>>
        /\ before = remote

CallNotificationUpdateRemote ==
    /\ pc = "idle"
    /\ LET api == remote.connect["X"]
           st  == NotificationUpdateRemote(Start(remote), local,
                      NotificationFromRemote(remote.tags, api), remote.tags, api)
       IN  /\ pc' = IF st.failed THEN "failed" ELSE "returned"
           /\ remote' = st.remote
           /\ calls' = st.calls
           /\ results' = <<st.changed>>
    /\ op' = "update"
    /\ snap' = [X |-> NotificationFromRemote(remote.tags, remote.connect["X"])]
    /\ fresh' = TRUE
    /\ UNCHANGED <<local, todo, rets, before>>

NextNotify == CallNotificationUpdateRemote

SpecNotify == InitNotify /\ [][NextNotify]_vars

\* The entry of the remote resource's fields as the update has to send it:
\* with the local value when the remote map binds it and the value changed.
AsSent(field) ==
    IF \E i \in DOMAIN NotificationRemoteMap :
          /\ NotificationRemoteMap[i].is_field
          /\ NotificationRemoteMap[i].r = field.name
          /\ local[NotificationRemoteMap[i].l] # field.value
    THEN [field EXCEPT !.value =
            local[(CHOOSE i \in DOMAIN NotificationRemoteMap :
                      NotificationRemoteMap[i].r = field.name).l]]
    ELSE field

\* C25: an update of a notification sends every entry of the remote
\* resource's fields, with the local value where it changed and as it was
\* otherwise, also the entries the variant's schema does not list; and the
\* update does not fail on a schema field the remote resource lacks.
C25_UpdateKeepsEveryRemoteField ==
    op = "update" =>
        /\ pc # "failed"
        /\ \A c \in DOMAIN calls :
              calls[c].op = "update" =>
                  \A i \in DOMAIN before.connect["X"].fields :
                      \E j \in DOMAIN calls[c].payload.fields :
                          calls[c].payload.fields[j] = AsSent(before.connect["X"].fields[i])

(***************************************************************************)
(* Custom formats: the update of one custom format and its conditions.     *)
(***************************************************************************)
\* CustomFormat._remote_map
CustomFormatRemoteMap ==
    << Entry("include_when_renaming", "includeCustomFormatWhenRenaming", FALSE, "plain") >>

\* Condition._base_remote_map
ConditionRemoteMap ==
    << Entry("negate", "negate", FALSE, "plain"),
       Entry("required", "required", FALSE, "plain") >>

\* Condition._from_remote
ConditionFromRemote(spec) == GetLocalAttrs(ConditionRemoteMap, spec, Ctx(EmptyMap, spec.name))

\* The creation hook of a condition: the specification made of its name,
\* its implementation and its encoded attributes.
ConditionCreateRemote(condition, name) ==
    Merge([name |-> name, implementation |-> "SourceSpecification"],
          GetCreateRemoteAttrs(condition, ConditionRemoteMap, Ctx(EmptyMap, name)).attrs)

\* The update hook of a condition: whether it differs from the remote one,
\* and the remote specification overlaid with its encoded attributes.
ConditionUpdateRemote(condition, remoteCondition, spec) ==
    LET got == GetUpdateRemoteAttrs(condition, remoteCondition, ConditionRemoteMap,
                                    Ctx(EmptyMap, spec.name), TRUE)
    IN  [changed |-> got.changed, dict |-> Merge(spec, got.attrs)]

\* The order of the condition names under sorted().
ConditionOrder == <<"A", "B", "C">>

ConditionRank(n) == CHOOSE i \in DOMAIN ConditionOrder : ConditionOrder[i] = n

\* sorted(api_condition_dicts, key=lambda k: k["name"]), for dicts of
\* distinct names.
SortedByName(dicts) ==
    LET names == {d.name : d \in dicts}
        idx   == SelectSeq([i \in DOMAIN ConditionOrder |-> i],
                           LAMBDA i : ConditionOrder[i] \in names)
    IN  [j \in DOMAIN idx |-> CHOOSE d \in dicts : d.name = ConditionOrder[idx[j]]]

\* {api_condition.name: api_condition for api_condition in specifications}
ApiConditions(api) ==
    [n \in {api.specifications[i].name : i \in DOMAIN api.specifications} |->
        api.specifications[CHOOSE i \in DOMAIN api.specifications :
                               api.specifications[i].name = n]]

\* CustomFormat._from_remote
CustomFormatFromRemote(api) ==
    Merge(GetLocalAttrs(CustomFormatRemoteMap, api, Ctx(EmptyMap, api.name)),
          [delete_unmanaged_conditions |-> FALSE,
           conditions |-> [n \in DOMAIN ApiConditions(api) |->
                              ConditionFromRemote(ApiConditions(api)[n])]])

\* A variant that keeps the unmanaged conditions whatever the flag says.
CustomFormatUpdateRemoteKeeping(st, entity, remoteEntity, api) ==
    LET got == GetUpdateRemoteAttrs(entity, remoteEntity, CustomFormatRemoteMap,
                                    Ctx(EmptyMap, api.name), TRUE)
        mine == DOMAIN entity.conditions
        theirs == DOMAIN remoteEntity.conditions
        dicts == {ConditionCreateRemote(entity.conditions[n], n) : n \in mine \ theirs}
                 \cup {ConditionUpdateRemote(entity.conditions[n], remoteEntity.conditions[n],
                                             ApiConditions(api)[n]).dict : n \in mine \cap theirs}
                 \cup {ApiConditions(api)[n] : n \in theirs \ mine}
        changed == \/ got.changed
                   \/ mine \ theirs # {}
                   \/ \E n \in mine \cap theirs :
                         ConditionUpdateRemote(entity.conditions[n], remoteEntity.conditions[n],
                                               ApiConditions(api)[n]).changed
    IN  IF changed
        THEN MarkChanged(ApiUpdate(st, "custom_formats", api.id,
                Merge(Merge(api, got.attrs), [specifications |-> SortedByName(dicts)])))
        ELSE st

\* CustomFormat._update_remote
CustomFormatUpdateRemote(st, entity, remoteEntity, api) ==
    LET got == GetUpdateRemoteAttrs(entity, remoteEntity, CustomFormatRemoteMap,
                                    Ctx(EmptyMap, api.name), TRUE)
        mine == DOMAIN entity.conditions
        theirs == DOMAIN remoteEntity.conditions
        dicts == {ConditionCreateRemote(entity.conditions[n], n) : n \in mine \ theirs}
                 \cup {ConditionUpdateRemote(entity.conditions[n], remoteEntity.conditions[n],
                                             ApiConditions(api)[n]).dict : n \in mine \cap theirs}
                 \cup (IF entity.delete_unmanaged_conditions THEN {}
                       ELSE {ApiConditions(api)[n] : n \in theirs \ mine})
        changed == \/ got.changed
                   \/ mine \ theirs # {}
                   \/ \E n \in mine \cap theirs :
                         ConditionUpdateRemote(entity.conditions[n], remoteEntity.conditions[n],
                                               ApiConditions(api)[n]).changed
                   \/ (entity.delete_unmanaged_conditions /\ theirs \ mine # {})
    IN  IF changed
        THEN MarkChanged(ApiUpdate(st, "custom_formats", api.id,
                Merge(Merge(api, got.attrs), [specifications |-> SortedByName(dicts)])))
        ELSE st

(***************************************************************************)
(* Specification SpecFormat: one custom format F exists remotely and is    *)
(* defined locally. Locally it has the conditions A and B or fewer,        *)
(* remotely C and A or fewer, listed in that order.                        *)
(***************************************************************************)
LocalConditions ==
    UNION {[present -> [negate : BOOLEAN, required : {FALSE}]] : present \in SUBSET {"A", "B"}}

RemoteSpecifications ==
    UNION {{SelectSeq(<< [name |-> "C", implementation |-> "SourceSpecification",
                          negate |-> FALSE, required |-> FALSE],
                         [name |-> "A", implementation |-> "SourceSpecification",
                          negate |-> negate, required |-> FALSE] >>,
                      LAMBDA d : d.name \in present) : negate \in BOOLEAN}
              : present \in SUBSET {"A", "C"}}

InitFormat ==
    \E conditions \in LocalConditions, specifications \in RemoteSpecifications,
       renaming \in BOOLEAN, unmanaged \in BOOLEAN :
        /\ local = [include_when_renaming |-> renaming,
                    delete_unmanaged_conditions |-> unmanaged,
                    conditions |-> conditions]
        /\ remote = [custom_formats |-> [n \in {"F"} |->
                        [id |-> 1, name |-> "F",
                         includeCustomFormatWhenRenaming |-> FALSE,
                         specifications |-> specifications]]]
        /\ snap = EmptyMap
        /\ fresh = FALSE
        /\ pc = "idle"
        /\ op = "none"
        /\ todo = <<>>
        /\ calls = <<>>
        /\ results = <<>>
        /\ rets = <<>>
        /\ before = remote

CallCustomFormatUpdateRemote ==
    /\ pc = "idle"
    /\ LET api == remote.custom_formats["F"]
           st  == CustomFormatUpdateRemote(Start(remote), local,
                                           CustomFormatFromRemote(api), api)
       IN  /\ pc' = IF st.failed THEN "failed" ELSE "returned"
           /\ remote' = st.remote
           /\ calls' = st.calls
           /\ results' = <<st.changed>>
    /\ op' = "update"
    /\ snap' = [F |-> CustomFormatFromRemote(remote.custom_formats["F"])]
    /\ fresh' = TRUE
    /\ UNCHANGED <<local, todo, rets, before>>

NextFormat == CallCustomFormatUpdateRemote

SpecFormat == InitFormat /\ [][NextFormat]_vars

\* The names of the remote conditions of F before the update, and those of
\* them that have no local counterpart.
RemoteConditionNames ==
    {before.custom_formats["F"].specifications[i].name :
        i \in DOMAIN before.custom_formats["F"].specifications}

UnmanagedConditions == RemoteConditionNames \ DOMAIN local.conditions

\* The names a specifications list has to hold.
ExpectedConditions ==
    DOMAIN local.conditions \cup
        (IF local.delete_unmanaged_conditions THEN {} ELSE UnmanagedConditions)

\* Nothing but an unmanaged condition tells F apart from its local definition.
OnlyUnmanagedDiffers ==
    /\ UnmanagedConditions # {}
    /\ local.include_when_renaming = before.custom_formats["F"].includeCustomFormatWhenRenaming
    /\ \A n \in DOMAIN local.conditions :
          /\ n \in RemoteConditionNames
          /\ \E i \in DOMAIN before.custom_formats["F"].specifications :
                /\ before.custom_formats["F"].specifications[i].name = n
                /\ before.custom_formats["F"].specifications[i].negate =
                       local.conditions[n].negate

\* C26: the specifications an update of a custom format sends are one entry
\* per local condition plus, exactly when delete_unmanaged_conditions is
\* off, every remote condition without a local counterpart as it was, in the
\* order of the condition names; and a remote condition without a local
\* counterpart makes the format changed exactly when the flag is on.
C26_UpdateSpecifications ==
    op = "update" =>
        /\ \A c \in DOMAIN calls :
              calls[c].op = "update" =>
                  LET sent == calls[c].payload.specifications
                  IN  /\ {sent[i].name : i \in DOMAIN sent} = ExpectedConditions
                      /\ Len(sent) = Cardinality(ExpectedConditions)
                      /\ \A i \in DOMAIN sent :
                            /\ sent[i].name \in DOMAIN local.conditions =>
                                  sent[i].negate = local.conditions[sent[i].name].negate
                            /\ sent[i].name \notin DOMAIN local.conditions =>
                                  \E j \in DOMAIN before.custom_formats["F"].specifications :
                                      before.custom_formats["F"].specifications[j] = sent[i]
                      /\ \A i, j \in DOMAIN sent :
                            i < j => ConditionRank(sent[i].name) < ConditionRank(sent[j].name)
        /\ OnlyUnmanagedDiffers =>
              /\ results[1] = local.delete_unmanaged_conditions
              /\ (calls # <<>>) = local.delete_unmanaged_conditions

\* An update was sent that keeps the unmanaged condition C, listed first
\* remotely, after the local conditions A and B.
C26_Witness ==
    /\ op = "update"
    /\ ~local.delete_unmanaged_conditions
    /\ DOMAIN local.conditions = {"A", "B"}
    /\ RemoteConditionNames = {"A", "C"}
    /\ Len(calls) = 1
    /\ Len(calls[1].payload.specifications) = 3
    /\ calls[1].payload.specifications[3].name = "C"

(***************************************************************************)
(* Specification SpecPasses: the update pass and then the delete pass of   *)
(* the download clients and of media management (root folders), each on a  *)
(* snapshot read before it. In these runs before stays the remote instance *)
(* as it was when the update pass began and calls holds the calls of both  *)
(* passes.                                                                 *)
(***************************************************************************)
PassSections == << "download_clients", "media_management" >>

FolderPaths == {"/a", "/b"}

InitPasses ==
    /\ \E flag \in BOOLEAN, folders \in SUBSET FolderPaths,
          x \in Opt({DefaultClient, [DefaultClient EXCEPT !.priority = MaxPriority]}),
          y \in Opt({DefaultClient}) :
            local = [TreeLocal(flag, {}, EmptyMap, folders, FALSE, FALSE, FALSE, FALSE, "auto")
                        EXCEPT !.download_clients =
                            [delete_unmanaged |-> flag, definitions |-> Definitions(x, y)]]
    /\ \E folders \in SUBSET FolderPaths,
          x \in Opt({DefaultClient}), y \in Opt({DefaultClient}) :
            remote = [TreeRemote([c \in RunCollections |-> "sync"], EmptyMap,
                                 RemoteQuality("Q", 0, NoneVal), folders)
                        EXCEPT !.download_clients =
                            RemoteCollection(Definitions(x, y), EmptyMap)]
    /\ Idle

\* The update pass.
PassUpdate ==
    /\ rets = <<>>
    /\ Begin("update", PassSections)

\* The delete pass, once the update pass has returned.
PassDelete ==
    /\ Len(rets) = 1
    /\ op = "update"
    /\ pc = "idle"
    /\ fresh
    /\ pc' = "delete"
    /\ op' = "delete"
    /\ todo' = PassSections
    /\ results' = <<>>
    /\ UNCHANGED <<local, remote, snap, fresh, calls, rets, before>>

NextPasses ==
    \/ Fetch
    \/ PassUpdate
    \/ UpdateDownloadClients
    \/ UpdateMediaManagement
    \/ PassDelete
    \/ DeleteDownloadClients
    \/ DeleteMediaManagement
    \/ Return

SpecPasses == InitPasses /\ [][NextPasses]_vars

\* Both passes have returned.
PassesDone == pc = "idle" /\ Len(rets) = 2

\* The names a collection has to hold after both passes.
ExpectedNames(localNames, previous, flag) ==
    IF flag THEN localNames ELSE localNames \cup previous

\* No create call was made for a name the collection held, none was made
\* twice, and no two resources of the collection share an id.
NoNameTwice(key) ==
    /\ \A i \in DOMAIN calls :
          (calls[i].sec = key /\ calls[i].op = "create") =>
              /\ calls[i].name \notin DOMAIN before[key]
              /\ \A j \in DOMAIN calls :
                    (calls[j].sec = key /\ calls[j].op = "create"
                        /\ calls[j].name = calls[i].name) => j = i
    /\ \A n, m \in DOMAIN remote[key] :
          remote[key][n].id = remote[key][m].id => n = m

\* C27: after the update pass and the delete pass of a definitions
\* collection and of the root folders have both succeeded, the remote names
\* are the local names when delete_unmanaged is set, and the local names
\* together with the names the remote instance held before the run when it
\* is not; no name exists twice.
C27_RemoteNamesAfterBothPasses ==
    PassesDone =>
        /\ DOMAIN remote.download_clients =
              ExpectedNames(DOMAIN local.download_clients.definitions,
                            DOMAIN before.download_clients,
                            local.download_clients.delete_unmanaged)
        /\ DOMAIN remote.root_folders =
              ExpectedNames(local.media_management.root_folders.definitions,
                            DOMAIN before.root_folders,
                            local.media_management.root_folders.delete_unmanaged)
        /\ NoNameTwice("download_clients")
        /\ NoNameTwice("root_folders")

\* Both passes are done without delete_unmanaged: the download client X and
\* the root folder /a were created beside the unmanaged Y and /b.
C27_Witness ==
    /\ PassesDone
    /\ ~local.download_clients.delete_unmanaged
    /\ DOMAIN local.download_clients.definitions = {"X"}
    /\ DOMAIN before.download_clients = {"Y"}
    /\ DOMAIN remote.download_clients = {"X", "Y"}
    /\ local.media_management.root_folders.definitions = {"/a"}
    /\ DOMAIN before.root_folders = {"/b"}
    /\ DOMAIN remote.root_folders = {"/a", "/b"}

(***************************************************************************)
(* Specification SpecQuality: the quality definition Q is defined locally  *)
(* with any title, min, preferred and max, and update_remote of the        *)
(* quality section runs once on a fresh snapshot.                          *)
(***************************************************************************)
PreferredSizes == {50, 95}

InitQuality ==
    /\ \E q \in [title : {NoneVal, Some("T")}, min : {0, 1}, preferred : PreferredSizes,
                 max : {NoneVal, Some(2)}] :
            local = [TreeLocal(FALSE, {}, EmptyMap, {"/a"}, FALSE, FALSE, FALSE, FALSE, "auto")
                        EXCEPT !.quality = [definitions |-> [n \in QualityNames |-> q]]]
    /\ \E title \in {"Q", "T"}, min \in {0, 1}, max \in {NoneVal, Some(2)} :
            remote = TreeRemote([c \in RunCollections |-> "sync"], EmptyMap,
                                RemoteQuality(title, min, max), {"/a"})
    /\ Idle

\* settings.quality.update_remote(...), once per behaviour.
CallQualityUpdateRemote ==
    /\ rets = <<>>
    /\ Begin("update", <<"quality">>)

NextQuality ==
    \/ Fetch
    \/ CallQualityUpdateRemote
    \/ UpdateQuality
    \/ Return

SpecQuality == InitQuality /\ [][NextQuality]_vars

\* The fields of a quality definition, and the remote attribute of each.
QualityFields == {"title", "min", "preferred", "max"}

QualityAttr(f) ==
    CASE f = "title"     -> "title"
      [] f = "min"       -> "minSize"
      [] f = "preferred" -> "preferredSize"
      [] f = "max"       -> "maxSize"

\* The fields in which the local definition of Q differs from the snapshot.
QualityDiffers ==
    {f \in QualityFields : local.quality.definitions["Q"][f] # snap.quality.definitions["Q"][f]}

\* The value an update has to carry for a differing field.
QualitySent(f) ==
    IF f = "title"
    THEN (IF local.quality.definitions["Q"].title = NoneVal THEN "Q"
          ELSE local.quality.definitions["Q"].title[1])
    ELSE local.quality.definitions["Q"][f]

\* C28: update_remote of the quality section updates a locally defined
\* quality definition whenever it differs from the remote one in title, min,
\* preferred or max, and the update carries the local value of each field
\* that differs.
C28_UpdatesEveryDifferingField ==
    (op = "update" /\ pc = "idle" /\ rets # <<>> /\ QualityDiffers # {}) =>
        \E i \in DOMAIN calls :
            /\ calls[i].op = "update"
            /\ calls[i].name = "Q"
            /\ \A f \in QualityDiffers : calls[i].payload[QualityAttr(f)] = QualitySent(f)

(***************************************************************************)
(* Declared fields and remote maps. For each section, the fields the       *)
(* entity class declares and the local names its remote map lists.         *)
(***************************************************************************)
MappedSections ==
    {"naming", "media_management", "lists", "download_clients", "indexers", "connect",
     "profiles", "ui"}

MediaManagementFields ==
    {"rename_movies", "replace_illegal_characters", "colon_replacement",
     "standard_movie_format", "movie_folder_format", "create_empty_movie_folders",
     "delete_empty_folders", "skip_free_space_check", "minimum_free_space",
     "use_hardlinks", "import_extra_files", "unmonitor_deleted_movies",
     "propers_and_repacks", "analyze_video_files", "rescan_folder_after_refresh",
     "change_file_date", "recycling_bin", "recycling_bin_cleanup", "set_permissions",
     "chmod_folder", "chown_group", "root_folders"}

UIFields ==
    {"first_day_of_week", "week_column_header", "runtime_format", "short_date_format",
     "long_date_format", "time_format", "show_relative_dates", "theme",
     "enable_color_impaired_mode", "movie_info_language", "ui_language"}

ProfileFields ==
    {"upgrades_allowed", "qualities", "upgrade_until_quality",
     "minimum_custom_format_score", "custom_formats", "language"}

IndexerFields ==
    {"enable_rss", "enable_automatic_search", "enable_interactive_search", "priority",
     "download_client", "tags"}

\* The fields declared by the class the section's remote map is applied to
\* (for the polymorphic collections: the base class and one variant).
DeclaredFields(sec) ==
    CASE sec \in {"naming", "media_management"} -> MediaManagementFields
      [] sec = "lists" -> {"exclusions", "delete_unmanaged", "definitions"}
      [] sec = "download_clients" ->
            {"enable", "priority", "remove_completed", "tags", "type", "host", "port",
             "use_ssl", "url_base", "username", "password", "category", "directory",
             "client_priority", "add_stopped"}
      [] sec = "indexers" -> IndexerFields
      [] sec = "connect" ->
            {"notification_triggers", "tags", "type", "url", "method", "username", "password"}
      [] sec = "profiles" -> ProfileFields
      [] sec = "ui" -> UIFields

\* The local names of the remote map(s) the section decodes and compares with.
MapLocals(sec) ==
    CASE sec = "naming" ->
            {"rename_movies", "replace_illegal_characters", "colon_replacement",
             "standard_movie_format", "movie_folder_format"}
      [] sec = "media_management" ->
            {"create_empty_movie_folders", "delete_empty_folders", "skip_free_space_check",
             "minimum_free_space", "use_hardlinks", "import_extra_files",
             "unmonitor_deleted_movies", "propers_and_repacks", "analyze_video_files",
             "rescan_series_folder_after_refresh", "change_file_date", "recycling_bin",
             "recycling_bin_cleanup", "set_permissions", "chmod_folder", "chown_group"}
      [] sec = "lists" -> {"list_update_interval", "clean_library_level"}
      [] sec = "download_clients" -> {"enable", "priority", "tags"}
      [] sec = "indexers" -> IndexerFields
      [] sec = "connect" -> {"tags", "url", "method", "username", "password"}
      [] sec = "profiles" -> ProfileFields
      [] sec = "ui" -> UIFields

\* cls(**cls.get_local_attrs(remote_map, remote_attrs)): one keyword per
\* local name of the map; a keyword the class does not declare sets no field.
DecodeFields(sec) ==
    [ok |-> MapLocals(sec) \subseteq DeclaredFields(sec),
     attrs |-> MapLocals(sec) \cap DeclaredFields(sec)]

\* get_update_remote_attrs reads every local name of the map off the local
\* and the remote entity; an undeclared name is an AttributeError.
DeltaFields(sec, differing) ==
    [ok |-> MapLocals(sec) \subseteq DeclaredFields(sec),
     changed |-> differing \cap MapLocals(sec) # {}]

(***************************************************************************)
(* Specification SpecFields: one section, whose local entity differs from  *)
(* the remote one in at most one named field, is decoded or compared.      *)
(***************************************************************************)
InitFields ==
    \E sec \in MappedSections :
      \E differing \in {{}} \cup {{f} : f \in DeclaredFields(sec) \cup MapLocals(sec)} :
        /\ local = [section |-> sec, differing |-> differing]
        /\ remote = [section |-> sec]
        /\ snap = EmptyMap
        /\ fresh = FALSE
        /\ pc = "idle"
        /\ op = "none"
        /\ todo = <<>>
        /\ calls = <<>>
        /\ results = <<>>
        /\ rets = <<>>
        /\ before = remote

\* from_remote of the section.
CallDecodeFields ==
    /\ pc = "idle"
    /\ ~fresh
    /\ LET got == DecodeFields(remote.section)
       IN  /\ pc' = IF got.ok THEN "idle" ELSE "failed"
           /\ snap' = [fields |-> got.attrs]
    /\ fresh' = TRUE
    /\ op' = "decode"
    /\ UNCHANGED <<local, remote, todo, calls, results, rets, before>>

\* The delta computation of the section's update_remote.
CallDeltaFields ==
    /\ pc = "idle"
    /\ fresh
    /\ op = "decode"
    /\ LET got == DeltaFields(local.section, local.differing)
       IN  /\ pc' = IF got.ok THEN "returned" ELSE "failed"
           /\ results' = <<got.changed>>
    /\ op' = "delta"
    /\ UNCHANGED <<local, remote, snap, fresh, todo, calls, rets, before>>

NextFields == CallDecodeFields \/ CallDeltaFields

SpecFields == InitFields /\ [][NextFields]_vars

\* C29: every local name of a remote map a section uses is a declared field
\* of the entity the map is applied to: decoding and delta computation never
\* look up an undeclared attribute.
C29_MapLocalsAreDeclared ==
    op \in {"decode", "delta"} =>
        /\ MapLocals(local.section) \subseteq DeclaredFields(local.section)
        /\ pc # "failed"

(***************************************************************************)
(* Specification SpecGroups: a quality profile with up to two quality      *)
(* groups, named G or H, and a plain quality is validated, and its         *)
(* qualities and its upgrade_until_quality are encoded.                    *)
(***************************************************************************)
GroupNames == {"G", "H"}

GroupLists ==
    {<<QualityGroup(g, {"B"}), Plain("A")>> : g \in GroupNames}
    \cup {<<QualityGroup(g, {"B"}), QualityGroup(h, {"C"}), Plain("A")>> :
              g \in GroupNames, h \in GroupNames}
    \cup {<<QualityGroup(g, {"B"}), Plain("A"), QualityGroup(h, {"C"})>> :
              g \in GroupNames, h \in GroupNames}
    \cup {<<QualityGroup(g, {"B", "C"}), QualityGroup(h, {"C"})>> :
              g \in GroupNames, h \in GroupNames}

InitGroups ==
    \E allowed \in BOOLEAN, qualities \in GroupLists, until \in Opt(GroupNames \cup {"A"}) :
        /\ local = [raw |-> ProfileInput(allowed, qualities, until, EmptyMap),
                    profile |-> NoneVal]
        /\ remote = [profiles |-> EmptyMap, qualities |-> ApiQualities,
                     custom_formats |-> EmptyMap, languages |-> ApiLanguages]
        /\ snap = [profiles |-> EmptyMap]
        /\ fresh = FALSE
        /\ pc = "idle"
        /\ op = "none"
        /\ todo = <<>>
        /\ calls = <<>>
        /\ results = <<>>
        /\ rets = <<>>
        /\ before = remote

\* The qualities entry of the remote map applied to the profile.
EncodeQualities ==
    /\ pc = "valid"
    /\ Encoded("items",
               QualitiesEncoder(remote.qualities, GroupIds(local.profile[1].qualities),
                                local.profile[1].qualities))

NextGroups ==
    \/ Validate
    \/ EncodeQualities
    \/ EncodeUpgradeUntil

SpecGroups == InitGroups /\ [][NextGroups]_vars

\* The encoded items of the accepted profile.
EncodedItems ==
    QualitiesEncoder(remote.qualities, GroupIds(local.profile[1].qualities),
                     local.profile[1].qualities).value

\* The positions of the groups in qualities, in order of appearance.
GroupPositions == SelectSeq([i \in DOMAIN local.raw.qualities |-> i],
                            LAMBDA i : local.raw.qualities[i].group)

\* C30: in an accepted quality profile the i-th quality group of qualities
\* is encoded with the id 1000+i, so no two entries of the encoded items
\* have one id, and the encoded cutoff is the id of exactly one entry.
C30_DistinctGroupIds ==
    /\ (EncodedEntry("items") /\ results[1].ok) =>
          /\ \A k \in DOMAIN GroupPositions :
                \E j \in DOMAIN results[1].value :
                    /\ "id" \in DOMAIN results[1].value[j]
                    /\ results[1].value[j].id = GroupIdBase + k
                    /\ results[1].value[j].name = local.raw.qualities[GroupPositions[k]].name
          /\ \A i, j \in DOMAIN results[1].value :
                ItemQuality(results[1].value[i]).id = ItemQuality(results[1].value[j]).id
                    => i = j
    /\ (EncodedEntry("upgrade_until") /\ results[1].ok) =>
          Cardinality({j \in DOMAIN EncodedItems :
                          ItemQuality(EncodedItems[j]).id = results[1].value[1]}) = 1
====
